---- MODULE Spec2Model ----
(***************************************************************************)
(* Inventory ledger of the IMS service: the durable inventories table, the *)
(* redis point-query and listing caches, and the request handlers of       *)
(* inventoryService (ReserveInventory, ReleaseInventory, FulfillInventory, *)
(* UpsertInventory, GetInventoryItem, GetInventory) running concurrently,  *)
(* each as the sequence of store and cache I/O calls its code performs.    *)
(*                                                                         *)
(* Every statement that reaches the store or the cache is one step, so     *)
(* the handlers interleave between any two of them. The hub and SKU codes  *)
(* of Keys resolve in the catalog. A store error (result.Error) can occur  *)
(* on the UPDATE statements of the delta updates and on the upsert         *)
(* transaction. calls is a log kept for stating the properties: the        *)
(* handlers never read it.                                                 *)
(*                                                                         *)
(* Spec      the point operations on one triple, redis reachable           *)
(* SpecList  the same with the unfiltered listing, redis reachable or not  *)
(* SpecBatch batch submissions to UpsertInventory: validation, chunks of   *)
(*           BatchSize entries, one transaction per chunk                  *)
(* SpecRef   Spec next to a catalog whose hub or SKU can be deleted        *)
(* SpecFilter one GetInventory call with a hub code or SKU codes: query,   *)
(*           page, padding with zero records                               *)
(* SpecLock  callers of GetInventoryWithLock that write what they read     *)
(* SpecCatalog the hub repository: Create, Update, Delete, GetByID and     *)
(*           GetByCode over the hubs table and its two redis keys; the     *)
(*           one-hour expiry of those keys is left out                     *)
(* SpecDelta the repository's delta updates called directly                *)
(* SpecPage  page and page_size of a list request on its way to the        *)
(*           repository                                                    *)
(* SpecRows  repository UpsertInventory transactions on the inventories    *)
(*           table as a heap of rows under its unique constraint           *)
(* SpecTenant SpecList with two tenants that use the same codes            *)
(* SpecOrder the order finalizer of the OMS reserving the items of one     *)
(*           order at the IMS                                              *)
(* SpecCsv   processBatch of the CSV order pipeline of the OMS             *)
(***************************************************************************)
EXTENDS Integers, Naturals, Sequences, FiniteSets, TLC

\* ---------------------------------------------------------------- bounds
NumProcs == 2      \* concurrent request handlers
MaxCalls == 2      \* calls started in one behaviour when calls overlap
MaxSeqCalls == 3   \* calls started in one behaviour when they run one at a time
MaxQty == 2        \* largest quantity argument of a call
MaxSeed == 2       \* largest counter of a row present before the first call
MaxFaults == 1     \* durable-store statements that return an error
MaxRepeat == 1     \* point queries that repeat the one before them, past MaxSeqCalls
MaxShort == 2      \* longest batch submission that fits in one chunk
MaxExtra == 1      \* entries of a long submission beyond its first full chunk
MaxSubmits == 1    \* batch submissions in one behaviour
MaxHubIds == 2     \* rows the hubs table can hold
MaxCatCalls == 2   \* catalog calls started in one behaviour when calls overlap
MaxCatSeqCalls == 3 \* catalog calls started in one behaviour when they run one at a time
MaxRows == 3       \* rows the heap of the inventories table can hold
MaxRowCalls == 3   \* repository calls started on the heap in one behaviour
MaxItems == 3      \* items of an order
MaxLost == 1       \* requests of the order finalizer that get no answer
MaxRecords == 3    \* records of a CSV batch

\* batchSize of service UpsertInventory
BatchSize == 100

Procs == 1..NumProcs

\* the hub codes of the tenant
Codes == {"A", "B"}

\* (tenant, hub code, sku code) triples that resolve in the catalog
Keys == {<<"T1", "H1", "S1">>}

Tenant(k) == k[1]

\* ------------------------------------------------------------ data model
\* models.Inventory: the four counters of a row
Row(q, a, r, t) == [quantity |-> q, available |-> a, reserved |-> r, in_transit |-> t]

\* gorm.ErrRecordNotFound: no row for the triple
NoRow == [absent |-> TRUE]

\* redis.Nil: no entry under the key
Miss == [miss |-> TRUE]

\* the zero-valued record GetInventoryItem synthesizes for a missing row
ZeroInventory == Row(0, 0, 0, 0)

\* rows that may exist before the first call; they satisfy the documented
\* invariants (counters >= 0, available + reserved <= quantity)
Seeds ==
  {NoRow} \cup
  {s \in {Row(q, a, r, 0) : q \in 0..MaxSeed, a \in 0..MaxSeed, r \in 0..MaxSeed} :
     s.available + s.reserved <= s.quantity}

VARIABLES
  store,    \* inventories table: Keys -> row or NoRow
  cache,    \* redis "inventory:tenant:T:hub:H:sku:S" entries: Keys -> row or Miss
  pc,       \* position of each handler
  cur,      \* index in calls of the call a handler is running
  got,      \* result of the handler's last repository GetInventoryItem
  inv,      \* the inventory the service read at the start of the call
  phase,    \* which delta update of the call is running: first, second, comp
  err,      \* error of the failed second update, returned after compensation
  seen,     \* result of redis KEYS in invalidateCache
  calls,    \* log of the calls: arguments, result, store before and after
  faults,   \* number of store statements that failed so far
  down,     \* redis is unreachable: every cache command returns an error
  live,     \* the catalog resolves the hub code and the SKU code of the triples
  pageCache,   \* redis "inventory:tenant:T:page:1:size:N" entry: Tenants -> listing or Miss
  countCache,  \* redis "inventory:tenant:T:count" entry: Tenants -> number or Miss
  lst,      \* the page a GetInventory handler holds
  tot,      \* the total a GetInventory handler holds
  sub,      \* the batch submission being processed
  bpc,      \* position of the batch handler
  lo,       \* index of the first entry of the current chunk
  pos,      \* index of the entry the transaction is processing
  txn,      \* the table as the open transaction sees it
  txres,    \* result of the last repository UpsertInventory call
  cpre,     \* the table when the last repository call began
  bres,     \* result of the last batch submission
  bidx,     \* index named by the validation error of the submission, -1: none
  bpre,     \* the table when the last batch submission began
  submits,  \* number of batch submissions so far
  chunks,   \* the slices of the submission passed to repository UpsertInventory so far
  freq,     \* the filter of the GetInventory call with a filter
  fpc,      \* position of that call
  frows,    \* the rows the repository returned to it
  ftotal,   \* the total the repository returned to it
  fres,     \* what the call returned
  lpc,      \* position of each caller of GetInventoryWithLock
  lgot,     \* the record GetInventoryWithLock returned to each caller
  lqty,     \* the quantity each caller wants to take
  rowLock,  \* the caller whose statement holds the row lock, 0: none
  hubs,     \* hubs table of the tenant: HubIds -> row or NoRow
  idCache,  \* redis "hub:<id>" entries: HubIds -> entity or Miss
  codeCache, \* redis "hub:code:<tenant>:<code>" entries: Codes -> entity or Miss
  encodes,  \* the redis client can store a models.Hub value
  hpc,      \* position of each catalog handler
  hcur,     \* index in hcalls of the call each catalog handler runs
  hent,     \* the hub each catalog handler holds
  hcalls,   \* history: one record per catalog call started
  preq,     \* the list request being served: route, page and page_size parameters
  ppc,      \* position of the list request
  peff,     \* the page and page size that reach the repository
  heap,     \* inventories table as a heap of rows: RowIds -> row with its key, or NoRow
  rlock,    \* the transaction that holds the row lock of each row, 0: none
  rpc,      \* position of each caller of repository UpsertInventory
  rarg,     \* the key and quantity of the update each caller passes
  rstage,   \* the rows each open transaction updated and the quantity it set
  rres,     \* what the last repository call of each caller returned
  rcount,   \* repository calls started on the heap
  rfaults,  \* commits that failed
  oitems,   \* the items of the order.created event the finalizer handles
  accepts,  \* the IMS accepts the X-Tenant-ID header the finalizer sends
  opc,      \* position of the finalizer
  oidx,     \* the item its reserveInventory loop is at
  ofailed,  \* the item whose reservation failed, 0: none
  ridx,     \* the item its rollback loop is at
  ostock,   \* the IMS rows of the tenant the finalizer's requests act on
  opre,     \* those rows when reserveInventory was called
  ores,     \* what the finalizer's step returned
  olost,    \* requests of the finalizer that got no answer
  records,       \* the CSV batch: for each record, whether it parses and validates
  bpos,          \* position of processBatch
  bi,            \* the index its loop is at
  validOrders,   \* the records appended to validOrders, in order
  savedCount,    \* SaveOrdersBatch: orders saved so far
  failedCount,   \* SaveOrdersBatch: saves that failed so far
  validCount,    \* processBatch: its first result
  invalidCount,  \* processBatch: its second result
  savedOrders,   \* the records whose order is in MongoDB
  emitted        \* the records for whose order emitOrderCreatedEvent was called

batchVars == <<sub, bpc, lo, pos, txn, txres, cpre, bres, bidx, bpre, submits, chunks>>

listVars == <<pageCache, countCache, lst, tot>>

filterVars == <<freq, fpc, frows, ftotal, fres>>

lockVars == <<lpc, lgot, lqty, rowLock>>

catVars == <<hubs, idCache, codeCache, encodes, hpc, hcur, hent, hcalls>>

pageVars == <<preq, ppc, peff>>

\* the variables of the parts of the service that stand beside the ledger
rowVars == <<heap, rlock, rpc, rarg, rstage, rres, rcount, rfaults>>

\* the variables of the order finalizer of the OMS
orderVars == <<oitems, accepts, opc, oidx, ofailed, ridx, ostock, opre, ores, olost>>

\* the variables of the CSV order pipeline of the OMS
csvVars == <<records, bpos, bi, validOrders, savedCount, failedCount, validCount, invalidCount,
             savedOrders, emitted>>

sideVars == <<pageVars, rowVars, orderVars, csvVars>>

\* what the list requests leave alone, and what the calls on the heap do
besidePage == <<rowVars, orderVars, csvVars>>

besideRows == <<pageVars, orderVars, csvVars>>

besideOrder == <<pageVars, rowVars, csvVars>>

besideCsv == <<pageVars, rowVars, orderVars>>

extVars == <<filterVars, lockVars, catVars, sideVars>>

vars == <<store, cache, pc, cur, got, inv, phase, err, seen, calls, faults, down, live, extVars, batchVars,
          pageCache, countCache, lst, tot>>

Tenants == {Tenant(k) : k \in Keys}

\* the triples of every tenant: a pattern and a WHERE that name no tenant
KeysOf_AllTenants(t) == DOMAIN store

\* the triples of a tenant
KeysOf(t) == {k \in DOMAIN store : Tenant(k) = t}

\* redis names of the listing entries of a tenant
PageKey(t) == <<t, "page">>
CountKey(t) == <<t, "count">>

\* ---------------------------------------------------------- cache helpers
\* a redis error is indistinguishable from a miss for the caller
getFromCache_ErrorAsEmpty(k) == IF down THEN Row(0, 0, 0, 0) ELSE cache[k]

\* getFromCache: err != nil on redis.Nil and on every other redis error
getFromCache(k) == IF down THEN Miss ELSE cache[k]

\* cacheSet: the error of redis SET is dropped by the callers
cacheSet(k, v) == IF down THEN cache ELSE [cache EXCEPT ![k] = v]

\* ------------------------------------------------------- SQL statements
\* the reserved counter moved by twice the delta
UpdateReservedQuantity_Doubles(row, delta) == [row EXCEPT !.reserved = @ + delta + delta]

\* UPDATE inventories SET reserved = reserved + delta WHERE ...
UpdateReservedQuantity(row, delta) == [row EXCEPT !.reserved = @ + delta]

\* the delta subtracted instead of added
UpdateAvailableQuantity_Subtracts(row, delta) == [row EXCEPT !.available = @ - delta]

\* UPDATE inventories SET available = available + delta WHERE ...
UpdateAvailableQuantity(row, delta) == [row EXCEPT !.available = @ + delta]

\* the whole record is saved with the entry's quantity: the other counters
\* are reset
UpsertRow_ResetsCounters(row, x) == Row(x, 0, 0, 0)

\* repository UpsertInventory for one entry: UPDATE quantity, INSERT when no
\* row was affected
UpsertRow(row, x) ==
  IF row = NoRow THEN Row(x, 0, 0, 0) ELSE [row EXCEPT !.quantity = x]

\* UPDATE inventories SET in_transit = in_transit + delta
UpdateInTransitQuantity(row, delta) == [row EXCEPT !.in_transit = @ + delta]

\* ReleaseInventory passing -quantity to UpdateAvailableQuantity, as
\* ReserveInventory does
Delta_ReleaseSubtracts(op, ph, q) ==
  CASE op = "Reserve" /\ ph = "first"  -> [col |-> "reserved",  d |-> q]
    [] op = "Reserve" /\ ph = "second" -> [col |-> "available", d |-> 0 - q]
    [] op = "Reserve" /\ ph = "comp"   -> [col |-> "reserved",  d |-> 0 - q]
    [] op = "Release" /\ ph = "first"  -> [col |-> "reserved",  d |-> 0 - q]
    [] op = "Release" /\ ph = "second" -> [col |-> "available", d |-> 0 - q]
    [] op = "Release" /\ ph = "comp"   -> [col |-> "reserved",  d |-> q]
    [] op = "Fulfill" /\ ph = "first"  -> [col |-> "reserved",  d |-> 0 - q]
    [] op = "Fulfill" /\ ph = "comp"   -> [col |-> "reserved",  d |-> q]
    [] op = "UpdateAvailable" /\ ph = "direct" -> [col |-> "available",  d |-> q]
    [] op = "UpdateReserved"  /\ ph = "direct" -> [col |-> "reserved",   d |-> q]
    [] op = "UpdateInTransit" /\ ph = "direct" -> [col |-> "in_transit", d |-> q]

\* the compensating update repeating the first update instead of undoing it
Delta_CompensationRepeats(op, ph, q) ==
  CASE op = "Reserve" /\ ph = "first"  -> [col |-> "reserved",  d |-> q]
    [] op = "Reserve" /\ ph = "second" -> [col |-> "available", d |-> 0 - q]
    [] op = "Reserve" /\ ph = "comp"   -> [col |-> "reserved",  d |-> q]
    [] op = "Release" /\ ph = "first"  -> [col |-> "reserved",  d |-> 0 - q]
    [] op = "Release" /\ ph = "second" -> [col |-> "available", d |-> q]
    [] op = "Release" /\ ph = "comp"   -> [col |-> "reserved",  d |-> 0 - q]
    [] op = "Fulfill" /\ ph = "first"  -> [col |-> "reserved",  d |-> 0 - q]
    [] op = "Fulfill" /\ ph = "comp"   -> [col |-> "reserved",  d |-> 0 - q]
    [] op = "UpdateAvailable" /\ ph = "direct" -> [col |-> "available",  d |-> q]
    [] op = "UpdateReserved"  /\ ph = "direct" -> [col |-> "reserved",   d |-> q]
    [] op = "UpdateInTransit" /\ ph = "direct" -> [col |-> "in_transit", d |-> q]

\* the column and delta of each delta update of a call
\* (ReserveInventory / ReleaseInventory / FulfillInventory)
Delta(op, ph, q) ==
  CASE op = "Reserve" /\ ph = "first"  -> [col |-> "reserved",  d |-> q]
    [] op = "Reserve" /\ ph = "second" -> [col |-> "available", d |-> 0 - q]
    [] op = "Reserve" /\ ph = "comp"   -> [col |-> "reserved",  d |-> 0 - q]
    [] op = "Release" /\ ph = "first"  -> [col |-> "reserved",  d |-> 0 - q]
    [] op = "Release" /\ ph = "second" -> [col |-> "available", d |-> q]
    [] op = "Release" /\ ph = "comp"   -> [col |-> "reserved",  d |-> q]
    [] op = "Fulfill" /\ ph = "first"  -> [col |-> "reserved",  d |-> 0 - q]
    [] op = "Fulfill" /\ ph = "comp"   -> [col |-> "reserved",  d |-> q]
    [] op = "UpdateAvailable" /\ ph = "direct" -> [col |-> "available",  d |-> q]
    [] op = "UpdateReserved"  /\ ph = "direct" -> [col |-> "reserved",   d |-> q]
    [] op = "UpdateInTransit" /\ ph = "direct" -> [col |-> "in_transit", d |-> q]

ApplyDelta(row, u) ==
  IF u.col = "reserved" THEN UpdateReservedQuantity(row, u.d)
  ELSE IF u.col = "in_transit" THEN UpdateInTransitQuantity(row, u.d)
  ELSE UpdateAvailableQuantity(row, u.d)

\* the business check of the service after it read the inventory
CheckError(op, g, q) ==
  IF op = "Reserve" /\ g.available < q THEN "InsufficientAvailable"
  ELSE IF op \in {"Release", "Fulfill"} /\ g.reserved < q THEN "InsufficientReserved"
  ELSE "none"

\* --------------------------------------------------------------- call log
\* calls[i] records the i-th call started: op, key, qty are its arguments,
\* res its result ("pending" while it runs), pre and post the row of its
\* triple when it started and when it returned, atMut the row just before
\* its first UPDATE statement took effect, eff the sum of the changes its
\* own statements made to the row, conc the calls that overlapped it, val the
\* record a GetInventoryItem call returned, inval whether the call issued a
\* cache DEL, nupd the number of its delta updates that took effect, ref
\* whether the catalog resolved its codes when it started
Call(p) == calls[cur[p]]

Counters(row) == IF row = NoRow THEN ZeroInventory ELSE row

AddEff(e, old, new) ==
  Row(e.quantity + Counters(new).quantity - Counters(old).quantity,
      e.available + Counters(new).available - Counters(old).available,
      e.reserved + Counters(new).reserved - Counters(old).reserved,
      e.in_transit + Counters(new).in_transit - Counters(old).in_transit)

InFlight == {cur[p] : p \in {r \in Procs : pc[r] # "idle"}}

NewCall(p, o, k, q, res) ==
  [op |-> o, key |-> k, qty |-> q, res |-> res,
   pre |-> store[k], post |-> store[k], atMut |-> NoRow, eff |-> ZeroInventory,
   conc |-> IF res = "pending" THEN InFlight ELSE {},
   val |-> NoRow, inval |-> FALSE, nupd |-> 0, ref |-> live]

\* no call has overlapped another one so far
Sequential == InFlight = {} /\ \A i \in DOMAIN calls : calls[i].conc = {}

\* the call repeats the point query that ran just before it
Repeats(o, k) ==
  /\ o = "Get" /\ Len(calls) > 0
  /\ calls[Len(calls)].op = "Get" /\ calls[Len(calls)].key = k

\* a call starts on the first idle handler (handlers are interchangeable);
\* it overlaps every call in flight
Begin(p, o, k, q, res) ==
  /\ pc[p] = "idle"
  /\ \A r \in Procs : r < p => pc[r] # "idle"
  /\ \/ Len(calls) < MaxCalls
     \/ Sequential /\ Len(calls) < MaxSeqCalls
     \/ Sequential /\ Len(calls) < MaxSeqCalls + MaxRepeat /\ Repeats(o, k)
  /\ LET id == Len(calls) + 1
         old == [i \in DOMAIN calls |->
                   IF i \in InFlight /\ res = "pending"
                   THEN [calls[i] EXCEPT !.conc = @ \cup {id}] ELSE calls[i]]
     IN /\ calls' = Append(old, NewCall(p, o, k, q, res))
        /\ cur' = [cur EXCEPT ![p] = id]

\* a call returns res; post is the row of its triple at that moment
Finish(p, res, post) ==
  /\ calls' = [calls EXCEPT ![cur[p]].res = res, ![cur[p]].post = post]
  /\ pc' = [pc EXCEPT ![p] = "idle"]
  /\ inv' = [inv EXCEPT ![p] = ZeroInventory]
  /\ phase' = [phase EXCEPT ![p] = "none"]
  /\ err' = [err EXCEPT ![p] = "none"]

\* no batch submission has been made
InitBatchIdle ==
  /\ sub = [n |-> 0, bad |-> 0, kind |-> "none", also |-> 0]
  /\ bpc = "idle"
  /\ lo = 1
  /\ pos = 1
  /\ txn = store
  /\ txres = "none"
  /\ cpre = store
  /\ bres = "none"
  /\ bidx = 0 - 1
  /\ chunks = <<>>
  /\ bpre = store
  /\ submits = 0

\* no GetInventory call with a filter has been made
InitFilterIdle ==
  /\ freq = [hub |-> "", codes |-> {}, page |-> 0, size |-> 0]
  /\ fpc = "idle"
  /\ frows = {}
  /\ ftotal = 0
  /\ fres = [err |-> "none", entries |-> {}, total |-> 0]

\* no caller has read under lock
InitLockIdle ==
  /\ lpc = [p \in Procs |-> "idle"]
  /\ lgot = [p \in Procs |-> ZeroInventory]
  /\ lqty = [p \in Procs |-> 0]
  /\ rowLock = 0

\* no catalog call has been made and the catalog caches are empty
InitCatalogIdle ==
  /\ idCache = [i \in 1..MaxHubIds |-> Miss]
  /\ codeCache = [c \in Codes |-> Miss]
  /\ hpc = [p \in Procs |-> "idle"]
  /\ hcur = [p \in Procs |-> 0]
  /\ hent = [p \in Procs |-> NoRow]
  /\ hcalls = <<>>

\* no list request is being served
InitPageIdle ==
  /\ preq = [route |-> "none", page |-> "", size |-> ""]
  /\ ppc = "idle"
  /\ peff = [page |-> 0, size |-> 0]

\* the heap is empty and no transaction is open on it
InitRowsIdle ==
  /\ heap = [i \in 1..MaxRows |-> NoRow]
  /\ rlock = [i \in 1..MaxRows |-> 0]
  /\ rpc = [p \in Procs |-> "idle"]
  /\ rarg = [p \in Procs |-> [key |-> <<"T1", "H1", "S1">>, qty |-> 0]]
  /\ rstage = [p \in Procs |-> [ids |-> {}, qty |-> 0]]
  /\ rres = [p \in Procs |-> "none"]
  /\ rcount = 0
  /\ rfaults = 0

\* the finalizer has no event
InitOrderIdle ==
  /\ oitems = <<>>
  /\ accepts = FALSE
  /\ opc = "idle"
  /\ oidx = 0
  /\ ofailed = 0
  /\ ridx = 0
  /\ ostock = [k \in {} |-> NoRow]
  /\ opre = [k \in {} |-> NoRow]
  /\ ores = "none"
  /\ olost = 0

\* no CSV batch is being processed
InitCsvIdle ==
  /\ records = <<>>
  /\ bpos = "idle"
  /\ bi = 0
  /\ validOrders = <<>>
  /\ savedCount = 0
  /\ failedCount = 0
  /\ validCount = 0
  /\ invalidCount = 0
  /\ savedOrders = {}
  /\ emitted = {}

\* the parts beside the ledger are idle
InitSideIdle ==
  /\ InitPageIdle
  /\ InitRowsIdle
  /\ InitOrderIdle
  /\ InitCsvIdle

\* the hubs table is empty
InitNoHubs ==
  /\ hubs = [i \in 1..MaxHubIds |-> NoRow]
  /\ encodes = TRUE

\* redis holds no entry of the triples ks and of their tenants
InitCaches(ks) ==
  /\ cache = [k \in ks |-> Miss]
  /\ pageCache = [t \in {Tenant(k) : k \in ks} |-> Miss]
  /\ countCache = [t \in {Tenant(k) : k \in ks} |-> Miss]

\* every handler is idle
InitIdle ==
  /\ InitFilterIdle
  /\ InitSideIdle
  /\ InitLockIdle
  /\ InitCatalogIdle
  /\ pc = [p \in Procs |-> "idle"]
  /\ cur = [p \in Procs |-> 0]
  /\ got = [p \in Procs |-> ZeroInventory]
  /\ inv = [p \in Procs |-> ZeroInventory]
  /\ phase = [p \in Procs |-> "none"]
  /\ err = [p \in Procs |-> "none"]
  /\ seen = [p \in Procs |-> {}]
  /\ calls = <<>>
  /\ faults = 0
  /\ live = TRUE
  /\ lst = [p \in Procs |-> Miss]
  /\ tot = [p \in Procs |-> 0]

\* every handler is idle and the caches are empty
InitHandlers == InitIdle /\ InitCaches(Keys)

InitLedger ==
  /\ store \in [Keys -> Seeds]
  /\ InitNoHubs
  /\ InitHandlers
  /\ InitBatchIdle

\* ------------------------------------------------- service entry points
\* the quantity validation rejecting only negative quantities
StartTransition_AcceptsZero(p, o, k, q) ==
  IF q < 0
  THEN Begin(p, o, k, q, "ValidationError") /\ UNCHANGED pc
  ELSE Begin(p, o, k, q, "pending") /\ pc' = [pc EXCEPT ![p] = "s_get"]

\* ReserveInventory / ReleaseInventory / FulfillInventory: validate the
\* quantity, then read the current inventory
StartTransition(p, o, k, q) ==
  IF q <= 0
  THEN Begin(p, o, k, q, "ValidationError") /\ UNCHANGED pc
  ELSE Begin(p, o, k, q, "pending") /\ pc' = [pc EXCEPT ![p] = "s_get"]

ReserveInventory(p) ==
  \E k \in DOMAIN store, q \in 0..MaxQty :
    /\ StartTransition(p, "Reserve", k, q)
    /\ UNCHANGED <<store, cache, got, inv, phase, err, seen, faults, down, live, extVars, batchVars, listVars>>

ReleaseInventory(p) ==
  \E k \in DOMAIN store, q \in 0..MaxQty :
    /\ StartTransition(p, "Release", k, q)
    /\ UNCHANGED <<store, cache, got, inv, phase, err, seen, faults, down, live, extVars, batchVars, listVars>>

FulfillInventory(p) ==
  \E k \in DOMAIN store, q \in 0..MaxQty :
    /\ StartTransition(p, "Fulfill", k, q)
    /\ UNCHANGED <<store, cache, got, inv, phase, err, seen, faults, down, live, extVars, batchVars, listVars>>

\* service GetInventoryItem: a point query
GetInventoryItem(p) ==
  \E k \in DOMAIN store :
    /\ Begin(p, "Get", k, 0, "pending")
    /\ pc' = [pc EXCEPT ![p] = "g_get"]
    /\ UNCHANGED <<store, cache, got, inv, phase, err, seen, faults, down, live, extVars, batchVars, listVars>>

\* service UpsertInventory with one entry: validate, then one chunk
UpsertInventory(p) ==
  \E k \in DOMAIN store, x \in (0 - 1)..MaxSeed :
    /\ IF x < 0
       THEN Begin(p, "Upsert", k, x, "ValidationError") /\ UNCHANGED pc
       ELSE Begin(p, "Upsert", k, x, "pending") /\ pc' = [pc EXCEPT ![p] = "up_tx"]
    /\ UNCHANGED <<store, cache, got, inv, phase, err, seen, faults, down, live, extVars, batchVars, listVars>>

\* ------------------------------------------- repository GetInventoryItem
\* what the caller of GetInventoryItem does with the record g it returns
AfterGet(p, g) ==
  LET c == Call(p) IN
  CASE pc[p] \in {"s_get", "s_set"} ->
         LET e == CheckError(c.op, g, c.qty) IN
         IF e # "none"
         THEN Finish(p, e, store[c.key])
         ELSE /\ inv' = [inv EXCEPT ![p] = g]
              /\ phase' = [phase EXCEPT ![p] = "first"]
              /\ pc' = [pc EXCEPT ![p] = "u_get"]
              /\ UNCHANGED <<calls, err>>
    [] pc[p] \in {"u_get", "u_set"} ->
         /\ pc' = [pc EXCEPT ![p] = "u_upd"]
         /\ UNCHANGED <<inv, phase, err, calls>>
    [] pc[p] \in {"g_get", "g_set"} ->
         /\ calls' = [calls EXCEPT ![cur[p]].res = "ok", ![cur[p]].post = store[c.key],
                                    ![cur[p]].val = g]
         /\ pc' = [pc EXCEPT ![p] = "idle"]
         /\ UNCHANGED <<inv, phase, err>>

\* invalidateCache placed before the check of result.Error: a failed first
\* update still invalidates, then returns its error
UpdateFailed_Invalidates(p, e) ==
  CASE phase[p] = "first" ->
         /\ phase' = [phase EXCEPT ![p] = "comp"]
         /\ err' = [err EXCEPT ![p] = e]
         /\ pc' = [pc EXCEPT ![p] = "u_del"]
         /\ UNCHANGED <<inv, calls>>
    [] phase[p] = "second" ->
         /\ phase' = [phase EXCEPT ![p] = "comp"]
         /\ err' = [err EXCEPT ![p] = e]
         /\ pc' = [pc EXCEPT ![p] = "u_get"]
         /\ UNCHANGED <<inv, calls>>
    [] phase[p] = "comp" -> Finish(p, err[p], store[Call(p).key])
    [] phase[p] = "direct" -> Finish(p, e, store[Call(p).key])

\* a delta update returned an error: the first update fails the call, the
\* second starts the compensation, the compensation's error is dropped
UpdateFailed(p, e) ==
  CASE phase[p] = "first" -> Finish(p, e, store[Call(p).key])
    [] phase[p] = "second" ->
         /\ phase' = [phase EXCEPT ![p] = "comp"]
         /\ err' = [err EXCEPT ![p] = e]
         /\ pc' = [pc EXCEPT ![p] = "u_get"]
         /\ UNCHANGED <<inv, calls>>
    [] phase[p] = "comp" -> Finish(p, err[p], store[Call(p).key])
    [] phase[p] = "direct" -> Finish(p, e, store[Call(p).key])

\* GetInventoryItem returned error e: a service call returns it, a delta
\* update returns it to its caller
GetFailed(p, e) ==
  CASE pc[p] \in {"s_get", "g_get"} -> Finish(p, e, store[Call(p).key])
    [] pc[p] = "u_get" -> UpdateFailed(p, e)

SetPc(at) ==
  CASE at = "s_get" -> "s_set" [] at = "u_get" -> "u_set" [] at = "g_get" -> "g_set"

\* the zero record of a missing row takes the cacheSet path of a found row
RepoGetInventoryItem_CachesZero(p) ==
  /\ pc[p] \in {"s_get", "u_get", "g_get"}
  /\ LET k == Call(p).key IN
     IF getFromCache(k) # Miss THEN AfterGet(p, getFromCache(k)) /\ UNCHANGED got
     ELSE IF ~live THEN GetFailed(p, "InvalidReference") /\ UNCHANGED got
     ELSE /\ got' = [got EXCEPT ![p] = Counters(store[k])]
          /\ pc' = [pc EXCEPT ![p] = SetPc(pc[p])]
          /\ UNCHANGED <<inv, phase, err, calls>>
  /\ UNCHANGED <<store, cache, cur, seen, faults, down, live, extVars, batchVars, listVars>>

\* cache hit: return the cached record; miss: resolve the codes, then read
\* the row; a missing row gives the zero record, which is not cached
RepoGetInventoryItem(p) ==
  /\ pc[p] \in {"s_get", "u_get", "g_get"}
  /\ LET k == Call(p).key IN
     IF getFromCache(k) # Miss THEN AfterGet(p, getFromCache(k)) /\ UNCHANGED got
     ELSE IF ~live THEN GetFailed(p, "InvalidReference") /\ UNCHANGED got
     ELSE IF store[k] = NoRow THEN AfterGet(p, ZeroInventory) /\ UNCHANGED got
     ELSE /\ got' = [got EXCEPT ![p] = store[k]]
          /\ pc' = [pc EXCEPT ![p] = SetPc(pc[p])]
          /\ UNCHANGED <<inv, phase, err, calls>>
  /\ UNCHANGED <<store, cache, cur, seen, faults, down, live, extVars, batchVars, listVars>>

\* cacheSet of the row that was read, then return it
RepoCacheSet(p) ==
  /\ pc[p] \in {"s_set", "u_set", "g_set"}
  /\ cache' = cacheSet(Call(p).key, got[p])
  /\ got' = [got EXCEPT ![p] = ZeroInventory]
  /\ AfterGet(p, got[p])
  /\ UNCHANGED <<store, cur, seen, faults, down, live, extVars, batchVars, listVars>>

\* ------------------------------------------------ repository delta updates
\* the UPDATE statement of UpdateReservedQuantity / UpdateAvailableQuantity
RepoUpdate(p) ==
  /\ pc[p] = "u_upd"
  /\ LET c == Call(p)
         k == c.key
         u == Delta(c.op, phase[p], c.qty)
     IN IF store[k] = NoRow
        THEN UpdateFailed(p, "OutOfDate") /\ UNCHANGED store
        ELSE /\ store' = [store EXCEPT ![k] = ApplyDelta(@, u)]
             /\ calls' = [calls EXCEPT
                           ![cur[p]].atMut = IF phase[p] = "first" THEN store[k] ELSE @,
                           ![cur[p]].eff = AddEff(@, store[k], store'[k]),
                           ![cur[p]].nupd = @ + 1]
             /\ pc' = [pc EXCEPT ![p] = "u_del"]
             /\ UNCHANGED <<inv, phase, err>>
  /\ UNCHANGED <<cache, cur, got, seen, faults, down, live, extVars, batchVars, listVars>>

\* the UPDATE statement returns result.Error
RepoUpdateFault(p) ==
  /\ pc[p] = "u_upd"
  /\ faults < MaxFaults
  /\ faults' = faults + 1
  /\ UpdateFailed(p, "StoreError")
  /\ UNCHANGED <<store, cache, cur, got, seen, down, live, extVars, batchVars, listVars>>

\* the caller's next statement after a delta update returned nil
AfterUpdate(p) ==
  LET c == Call(p) IN
  CASE phase[p] = "first" /\ c.op = "Fulfill" ->
         /\ pc' = [pc EXCEPT ![p] = "f_upsert"]
         /\ UNCHANGED <<inv, phase, err, calls>>
    [] phase[p] = "first" /\ c.op # "Fulfill" ->
         /\ phase' = [phase EXCEPT ![p] = "second"]
         /\ pc' = [pc EXCEPT ![p] = "u_get"]
         /\ UNCHANGED <<inv, err, calls>>
    [] phase[p] = "second" -> Finish(p, "ok", store[c.key])
    [] phase[p] = "comp" -> Finish(p, err[p], store[c.key])
    [] phase[p] = "direct" -> Finish(p, "ok", store[c.key])

\* invalidateCache: DEL of the item key
InvalidateDel(p) ==
  /\ pc[p] = "u_del"
  /\ cache' = cacheSet(Call(p).key, Miss)
  /\ calls' = [calls EXCEPT ![cur[p]].inval = TRUE]
  /\ pc' = [pc EXCEPT ![p] = "u_keys"]
  /\ UNCHANGED <<store, cur, got, inv, phase, err, seen, faults, down, live, extVars, batchVars, listVars>>

\* invalidateCache: KEYS inventory:tenant:T:*
InvalidateKeys(p) ==
  /\ pc[p] = "u_keys"
  /\ LET t == Tenant(Call(p).key)
         ks == IF down THEN {}
               ELSE {x \in KeysOf(t) : cache[x] # Miss}
                    \cup {x \in {PageKey(t)} : pageCache[t] # Miss}
                    \cup {x \in {CountKey(t)} : countCache[t] # Miss}
     IN
     IF ks = {}
     THEN AfterUpdate(p) /\ UNCHANGED seen
     ELSE /\ seen' = [seen EXCEPT ![p] = ks]
          /\ pc' = [pc EXCEPT ![p] = "u_delkeys"]
          /\ UNCHANGED <<inv, phase, err, calls>>
  /\ UNCHANGED <<store, cache, cur, got, faults, down, live, extVars, batchVars, listVars>>

\* invalidateCache: DEL of the keys KEYS returned
InvalidateDelKeys(p) ==
  /\ pc[p] = "u_delkeys"
  /\ cache' = IF down THEN cache
              ELSE [x \in DOMAIN cache |-> IF x \in seen[p] THEN Miss ELSE cache[x]]
  /\ pageCache' = IF down THEN pageCache
                  ELSE [t \in DOMAIN pageCache |->
                          IF PageKey(t) \in seen[p] THEN Miss ELSE pageCache[t]]
  /\ countCache' = IF down THEN countCache
                   ELSE [t \in DOMAIN countCache |->
                           IF CountKey(t) \in seen[p] THEN Miss ELSE countCache[t]]
  /\ seen' = [seen EXCEPT ![p] = {}]
  /\ AfterUpdate(p)
  /\ UNCHANGED <<store, cur, got, faults, down, live, extVars, batchVars, lst, tot>>

\* ------------------------------------------- repository UpsertInventory
\* the quantity the caller passes: FulfillInventory passes the quantity it
\* read at the start of the call minus the fulfilled quantity
UpsertQuantity(p) ==
  IF Call(p).op = "Fulfill" THEN inv[p].quantity - Call(p).qty ELSE Call(p).qty

\* repository UpsertInventory returned error e after tx.Rollback(): service
\* UpsertInventory returns it, FulfillInventory compensates
UpsertFailed(p, e) ==
  IF pc[p] = "up_tx"
  THEN Finish(p, e, store[Call(p).key])
  ELSE /\ phase' = [phase EXCEPT ![p] = "comp"]
       /\ err' = [err EXCEPT ![p] = e]
       /\ pc' = [pc EXCEPT ![p] = "u_get"]
       /\ UNCHANGED <<inv, calls>>

\* the codes resolve and the transaction commits; the cache is left as it is
RepoUpsertInventory(p) ==
  /\ pc[p] \in {"up_tx", "f_upsert"}
  /\ LET k == Call(p).key IN
     IF ~live THEN UpsertFailed(p, "InvalidReference") /\ UNCHANGED store
     ELSE
     /\ store' = [store EXCEPT ![k] = UpsertRow(@, UpsertQuantity(p))]
     /\ calls' = [calls EXCEPT ![cur[p]].res = "ok", ![cur[p]].post = store'[k],
                                ![cur[p]].eff = AddEff(@, store[k], store'[k])]
     /\ pc' = [pc EXCEPT ![p] = "idle"]
     /\ inv' = [inv EXCEPT ![p] = ZeroInventory]
     /\ phase' = [phase EXCEPT ![p] = "none"]
     /\ err' = [err EXCEPT ![p] = "none"]
  /\ UNCHANGED <<cache, cur, got, seen, faults, down, live, extVars, batchVars, listVars>>

\* the transaction fails and rolls back
RepoUpsertFault(p) ==
  /\ pc[p] \in {"up_tx", "f_upsert"}
  /\ faults < MaxFaults
  /\ faults' = faults + 1
  /\ UpsertFailed(p, "StoreError")
  /\ UNCHANGED <<store, cache, cur, got, seen, down, live, extVars, batchVars, listVars>>

\* ------------------------------------------------------------- the cache
\* the TTL of an entry runs out
CacheExpire ==
  \E k \in DOMAIN cache :
    /\ cache[k] # Miss
    /\ cache' = [cache EXCEPT ![k] = Miss]
    /\ UNCHANGED <<store, pc, cur, got, inv, phase, err, seen, calls, faults, down, live, extVars, batchVars, listVars>>

Next ==
  \/ \E p \in Procs : ReserveInventory(p)
  \/ \E p \in Procs : ReleaseInventory(p)
  \/ \E p \in Procs : FulfillInventory(p)
  \/ \E p \in Procs : GetInventoryItem(p)
  \/ \E p \in Procs : UpsertInventory(p)
  \/ \E p \in Procs : RepoGetInventoryItem(p)
  \/ \E p \in Procs : RepoCacheSet(p)
  \/ \E p \in Procs : RepoUpdate(p)
  \/ \E p \in Procs : RepoUpdateFault(p)
  \/ \E p \in Procs : InvalidateDel(p)
  \/ \E p \in Procs : InvalidateKeys(p)
  \/ \E p \in Procs : InvalidateDelKeys(p)
  \/ \E p \in Procs : RepoUpsertInventory(p)
  \/ \E p \in Procs : RepoUpsertFault(p)
  \/ CacheExpire

\* redis is reachable
Init == InitLedger /\ down = FALSE

Spec == Init /\ [][Next]_vars

\* ------------------------------------------------- the catalog directory
\* hubRepository.Delete / skuRepository.Delete of the hub or the SKU of the
\* triples: the row is soft-deleted and its two cache keys are deleted, so
\* GetByCode no longer returns it; the inventory rows and the inventory
\* cache are not touched
CatalogDelete ==
  /\ live
  /\ live' = FALSE
  /\ UNCHANGED <<store, cache, pc, cur, got, inv, phase, err, seen, calls, faults, down,
                 batchVars, listVars, extVars>>

NextRef == Next \/ CatalogDelete

\* the ledger next to a catalog whose entries can be deleted
SpecRef == Init /\ [][NextRef]_vars

\* ------------------------------------- delta updates called on their own
DirectOps == {"UpdateAvailable", "UpdateReserved", "UpdateInTransit"}

\* a caller other than the three transitions calls UpdateAvailableQuantity,
\* UpdateReservedQuantity or UpdateInTransitQuantity with a delta
DirectUpdate(p) ==
  \E k \in DOMAIN store, o \in DirectOps, d \in {0 - 1, 1} :
    /\ Begin(p, o, k, d, "pending")
    /\ pc' = [pc EXCEPT ![p] = "u_get"]
    /\ phase' = [phase EXCEPT ![p] = "direct"]
    /\ UNCHANGED <<store, cache, got, inv, err, seen, faults, down, live, extVars, batchVars,
                   listVars>>

NextDelta ==
  \/ \E p \in Procs : DirectUpdate(p)
  \/ \E p \in Procs : GetInventoryItem(p)
  \/ \E p \in Procs : UpsertInventory(p)
  \/ \E p \in Procs : RepoGetInventoryItem(p)
  \/ \E p \in Procs : RepoCacheSet(p)
  \/ \E p \in Procs : RepoUpdate(p)
  \/ \E p \in Procs : RepoUpdateFault(p)
  \/ \E p \in Procs : InvalidateDel(p)
  \/ \E p \in Procs : InvalidateKeys(p)
  \/ \E p \in Procs : InvalidateDelKeys(p)
  \/ \E p \in Procs : RepoUpsertInventory(p)
  \/ \E p \in Procs : RepoUpsertFault(p)
  \/ CacheExpire

\* delta updates called on their own, next to point queries and upserts
SpecDelta == Init /\ [][NextDelta]_vars

\* ------------------------------------------------ repository GetInventory
\* the rows of a tenant, as one unfiltered page that holds them all
Listing(t) == [k \in KeysOf(t) |-> store[k]]

\* SELECT count(*) FROM inventories WHERE tenant_id = t
Count(t) == Cardinality({k \in KeysOf(t) : store[k] # NoRow})

\* service GetInventory without hub, seller or SKU filter
GetInventory(p) ==
  \E t \in DOMAIN pageCache :
    /\ Begin(p, "List", CHOOSE k \in KeysOf(t) : TRUE, 0, "pending")
    /\ pc' = [pc EXCEPT ![p] = "l_get"]
    /\ UNCHANGED <<store, cache, got, inv, phase, err, seen, faults, down, live, extVars, batchVars, listVars>>

\* GetInventory returns the page and the total
ReturnList(p, rows, total) ==
  /\ calls' = [calls EXCEPT ![cur[p]].res = "ok",
                             ![cur[p]].post = store[Call(p).key],
                             ![cur[p]].val = [rows |-> rows, total |-> total]]
  /\ pc' = [pc EXCEPT ![p] = "idle"]
  /\ lst' = [lst EXCEPT ![p] = Miss]
  /\ tot' = [tot EXCEPT ![p] = 0]

\* getFromCache of the page key
RepoListGet(p) ==
  /\ pc[p] = "l_get"
  /\ LET t == Tenant(Call(p).key) IN
     IF ~down /\ pageCache[t] # Miss
     THEN /\ lst' = [lst EXCEPT ![p] = pageCache[t].rows]
          /\ pc' = [pc EXCEPT ![p] = "l_cnt"]
     ELSE /\ pc' = [pc EXCEPT ![p] = "l_count"]
          /\ UNCHANGED lst
  /\ UNCHANGED <<store, cache, cur, got, inv, phase, err, seen, calls, faults, down, live, extVars, batchVars,
                 pageCache, countCache, tot>>

\* page hit: redis GET of the count key
RepoListCachedCount(p) ==
  /\ pc[p] = "l_cnt"
  /\ LET t == Tenant(Call(p).key) IN
     IF ~down /\ countCache[t] # Miss
     THEN ReturnList(p, lst[p], countCache[t].total)
     ELSE /\ pc' = [pc EXCEPT ![p] = "l_cntdb"]
          /\ UNCHANGED <<lst, tot, calls>>
  /\ UNCHANGED <<store, cache, cur, got, inv, phase, err, seen, faults, down, live, extVars, batchVars,
                 pageCache, countCache>>

\* Count(&total) against the store
RepoListCount(p) ==
  /\ pc[p] \in {"l_cntdb", "l_count"}
  /\ tot' = [tot EXCEPT ![p] = Count(Tenant(Call(p).key))]
  /\ pc' = [pc EXCEPT ![p] = IF pc[p] = "l_cntdb" THEN "l_cntset" ELSE "l_find"]
  /\ UNCHANGED <<store, cache, cur, got, inv, phase, err, seen, calls, faults, down, live, extVars, batchVars,
                 pageCache, countCache, lst>>

\* Find(&inventories) against the store
RepoListFind(p) ==
  /\ pc[p] = "l_find"
  /\ lst' = [lst EXCEPT ![p] = Listing(Tenant(Call(p).key))]
  /\ pc' = [pc EXCEPT ![p] = "l_pset"]
  /\ UNCHANGED <<store, cache, cur, got, inv, phase, err, seen, calls, faults, down, live, extVars, batchVars,
                 pageCache, countCache, tot>>

\* cacheSet of the page
RepoListCacheSet(p) ==
  /\ pc[p] = "l_pset"
  /\ pageCache' = IF down THEN pageCache
                  ELSE [pageCache EXCEPT ![Tenant(Call(p).key)] = [rows |-> lst[p]]]
  /\ pc' = [pc EXCEPT ![p] = "l_cset"]
  /\ UNCHANGED <<store, cache, cur, got, inv, phase, err, seen, calls, faults, down, live, extVars, batchVars,
                 countCache, lst, tot>>

\* redis SET of the count, then return
RepoListCountSet(p) ==
  /\ pc[p] \in {"l_cntset", "l_cset"}
  /\ countCache' = IF down THEN countCache
                   ELSE [countCache EXCEPT ![Tenant(Call(p).key)] = [total |-> tot[p]]]
  /\ ReturnList(p, lst[p], tot[p])
  /\ UNCHANGED <<store, cache, cur, got, inv, phase, err, seen, faults, down, live, extVars, batchVars, pageCache>>

\* the TTL of a listing entry runs out
ListCacheExpire ==
  \E t \in DOMAIN pageCache :
    /\ \/ pageCache[t] # Miss /\ pageCache' = [pageCache EXCEPT ![t] = Miss]
                              /\ UNCHANGED countCache
       \/ countCache[t] # Miss /\ countCache' = [countCache EXCEPT ![t] = Miss]
                               /\ UNCHANGED pageCache
    /\ UNCHANGED <<store, cache, pc, cur, got, inv, phase, err, seen, calls, faults,
                   down, live, extVars, batchVars, lst, tot>>

NextList ==
  \/ Next
  \/ \E p \in Procs : GetInventory(p)
  \/ \E p \in Procs : RepoListGet(p)
  \/ \E p \in Procs : RepoListCachedCount(p)
  \/ \E p \in Procs : RepoListCount(p)
  \/ \E p \in Procs : RepoListFind(p)
  \/ \E p \in Procs : RepoListCacheSet(p)
  \/ \E p \in Procs : RepoListCountSet(p)
  \/ ListCacheExpire

\* redis is reachable or not, for the whole behaviour
InitOutage == InitLedger /\ down \in BOOLEAN

\* the ledger with the listing, with and without redis
SpecList == InitOutage /\ [][NextList]_vars

\* ------------------------------------------------------------ two tenants
\* Two tenants whose catalogs use the same hub code and the same SKU code.
\* hubRepo.GetByCode and skuRepo.GetByCode resolve a code under the tenant of
\* the call, every statement on inventories names tenant_id, and every redis
\* key starts with "inventory:tenant:<tenant>:", so a triple of the table and
\* of the cache is (tenant, hub code, SKU code).
TKeys == {<<"T1", "H1", "S1">>, <<"T2", "H1", "S1">>}

\* in_transit of the rows a tenant starts with. No call of this
\* specification writes in_transit, and only the row of T1 can be inserted
\* by a call, so in_transit tells the rows of the two tenants apart.
Mark(t) == IF t = "T1" THEN 0 ELSE 1

\* the row of T2 exists; the row of T1 exists or is inserted by an upsert
InitTenant ==
  /\ store \in {f \in [TKeys -> {NoRow, Row(MaxSeed, 1, 1, 0), Row(MaxSeed, 1, 1, 1)}] :
                  /\ f[<<"T1", "H1", "S1">>] \in {NoRow, Row(MaxSeed, 1, 1, Mark("T1"))}
                  /\ f[<<"T2", "H1", "S1">>] = Row(MaxSeed, 1, 1, Mark("T2"))}
  /\ InitNoHubs
  /\ InitIdle
  /\ InitCaches(TKeys)
  /\ InitBatchIdle
  /\ down = FALSE

NextTenant == NextList

\* the ledger and the listing with two tenants
SpecTenant == InitTenant /\ [][NextTenant]_vars

\* ------------------------------------------------ batch UpsertInventory
\* service UpsertInventory with a list of entries: validation, then one
\* repository UpsertInventory call (one transaction) per chunk of BatchSize
\* entries. One handler runs it; a statement of the transaction, or its
\* Begin or Commit, can return an error (a store error or a cancelled
\* context).

\* the triples the entries of a submission name
BKeys == {<<"T1", "H1", "S1">>, <<"T1", "H1", "S2">>}

\* hub and SKU codes that hubRepo.GetByCode / skuRepo.GetByCode resolve
CatalogHubs == {"H1"}
CatalogSkus == {"S1", "S2"}

\* rows present before a submission, with stock in available and reserved
BSeeds == {s \in Seeds : s = NoRow \/ (s.available = 1 /\ s.reserved = 1)}

BatchLens == (0..MaxShort) \cup {BatchSize + d : d \in 0..MaxExtra}

\* what is wrong with the entry at index bad: a code that does not resolve,
\* a blank code, a negative quantity
Kinds == {"hub", "sku", "blankHub", "blankSku", "negative"}

\* the submissions: n entries, the entry at index bad (if any) is wrong, the
\* entry at index also (if any) has a negative quantity
Subs ==
  {s \in [n : BatchLens, bad : {0, 1, 2, BatchSize} \cup BatchLens,
           kind : Kinds \cup {"none"}, also : {0, 1} \cup BatchLens] :
     /\ (s.bad = 0) <=> (s.kind = "none")
     /\ s.bad \in {0, 1, 2, BatchSize, s.n}
     /\ s.bad <= s.n
     /\ s.also \in {0, 1, s.n}
     /\ s.also = 0 \/ s.also # s.bad}

\* models.InventoryUpdate at index i of submission s: the entries name the
\* two SKUs in turn, with quantities 1, 2, ...
Entry(s, i) ==
  [hub |-> IF i = s.bad /\ s.kind = "hub" THEN "H9"
           ELSE IF i = s.bad /\ s.kind = "blankHub" THEN "" ELSE "H1",
   sku |-> IF i = s.bad /\ s.kind = "sku" THEN "S9"
           ELSE IF i = s.bad /\ s.kind = "blankSku" THEN ""
           ELSE IF i % 2 = 1 THEN "S1" ELSE "S2",
   quantity |-> IF (i = s.bad /\ s.kind = "negative") \/ i = s.also THEN 0 - 1
                ELSE i % (MaxSeed + 1)]

EntryKey(u) == <<"T1", u.hub, u.sku>>

\* the tests of the validation loop without the test of the quantity
Invalid_AllowsNegative(u) == u.hub = "" \/ u.sku = ""

\* the three tests the validation loop makes on an entry
Invalid(u) == u.hub = "" \/ u.sku = "" \/ u.quantity < 0

\* the validation loop of service UpsertInventory returns at the first entry
\* that fails a test: the index its error names, counted from 0 as the loop
\* counts, or -1 when every entry passes
FirstInvalid(s) ==
  LET bad == {i \in 1..s.n : Invalid(Entry(s, i))} IN
  IF bad = {} THEN 0 - 1 ELSE (CHOOSE i \in bad : \A j \in bad : i <= j) - 1

\* the error of the validation of service UpsertInventory
Validate(s) ==
  IF s.n = 0 THEN "NoUpdates"
  ELSE IF FirstInvalid(s) >= 0 THEN "ValidationError"
  ELSE "none"

\* the chunk that overruns BatchSize by one entry
ChunkEnd_OneMore(s, i) == IF i + BatchSize > s.n THEN s.n ELSE i + BatchSize

\* index of the last entry of the chunk that starts at index i
ChunkEnd(s, i) == IF i + BatchSize - 1 > s.n THEN s.n ELSE i + BatchSize - 1

\* the statements of the transaction took effect on the table
Rollback_KeepsWrites(table, staged) == staged

\* tx.Rollback(): the table is as it was
Rollback(table, staged) == table

\* batch := updates[i:end] is passed to repository UpsertInventory
PassChunk(s, i) == chunks' = Append(chunks, [lo |-> i, hi |-> ChunkEnd(s, i)])

\* service UpsertInventory is called with a submission
UpsertBatch ==
  /\ bpc = "idle"
  /\ submits < MaxSubmits
  /\ \E s \in Subs :
       /\ sub' = s
       /\ bidx' = FirstInvalid(s)
       /\ IF Validate(s) # "none"
          THEN bres' = Validate(s) /\ bpc' = "idle" /\ chunks' = <<>>
          ELSE /\ bres' = "pending" /\ bpc' = "b_begin"
               /\ chunks' = <<[lo |-> 1, hi |-> ChunkEnd(s, 1)]>>
  /\ submits' = submits + 1
  /\ bpre' = store
  /\ lo' = 1
  /\ pos' = 1
  /\ txres' = "none"
  /\ UNCHANGED <<store, cache, pc, cur, got, inv, phase, err, seen, calls, faults,
                 down, live, extVars, listVars, txn, cpre>>

\* repository UpsertInventory: db.Begin()
TxBegin ==
  /\ bpc = "b_begin"
  /\ txn' = store
  /\ cpre' = store
  /\ txres' = "pending"
  /\ pos' = lo
  /\ bpc' = "b_resolve"
  /\ UNCHANGED <<store, cache, pc, cur, got, inv, phase, err, seen, calls, faults,
                 down, live, extVars, listVars, sub, bidx, chunks, lo, bres, bpre, submits>>

\* the repository call returns error e after tx.Rollback(); the service
\* returns it
TxFail(e) ==
  /\ store' = Rollback(store, txn)
  /\ txres' = "error"
  /\ bres' = e
  /\ bpc' = "idle"

\* hubRepo.GetByCode and skuRepo.GetByCode of the entry
TxResolve ==
  /\ bpc = "b_resolve"
  /\ LET u == Entry(sub, pos) IN
     IF u.hub \notin CatalogHubs \/ u.sku \notin CatalogSkus
     THEN TxFail("InvalidCode")
     ELSE /\ bpc' = "b_update"
          /\ UNCHANGED <<store, txres, bres>>
  /\ UNCHANGED <<cache, pc, cur, got, inv, phase, err, seen, calls, faults,
                 down, live, extVars, listVars, sub, bidx, chunks, lo, pos, txn, cpre, bpre, submits>>

\* the next entry of the chunk, or the commit after the last one
NextEntry ==
  IF pos < ChunkEnd(sub, lo)
  THEN pos' = pos + 1 /\ bpc' = "b_resolve"
  ELSE pos' = pos /\ bpc' = "b_commit"

\* UPDATE inventories SET quantity = ? WHERE ...: RowsAffected is 0 when the
\* transaction sees no row
TxUpdate ==
  /\ bpc = "b_update"
  /\ LET u == Entry(sub, pos)
         k == EntryKey(u)
     IN IF txn[k] = NoRow
        THEN /\ bpc' = "b_insert"
             /\ UNCHANGED <<txn, pos>>
        ELSE /\ txn' = [txn EXCEPT ![k] = UpsertRow(@, u.quantity)]
             /\ NextEntry
  /\ UNCHANGED <<store, cache, pc, cur, got, inv, phase, err, seen, calls, faults,
                 down, live, extVars, listVars, sub, bidx, chunks, lo, txres, cpre, bres, bpre, submits>>

\* tx.Create of the row with the entry's quantity
TxInsert ==
  /\ bpc = "b_insert"
  /\ LET u == Entry(sub, pos) IN
     txn' = [txn EXCEPT ![EntryKey(u)] = UpsertRow(@, u.quantity)]
  /\ NextEntry
  /\ UNCHANGED <<store, cache, pc, cur, got, inv, phase, err, seen, calls, faults,
                 down, live, extVars, listVars, sub, bidx, chunks, lo, txres, cpre, bres, bpre, submits>>

\* tx.Commit(): the writes of the chunk become the table
TxCommit ==
  /\ bpc = "b_commit"
  /\ store' = txn
  /\ txres' = "ok"
  /\ bpc' = "b_next"
  /\ UNCHANGED <<cache, pc, cur, got, inv, phase, err, seen, calls, faults,
                 down, live, extVars, listVars, sub, bidx, chunks, lo, pos, txn, cpre, bres, bpre, submits>>

\* the loop of the service: the next chunk, or return nil
NextChunk ==
  /\ bpc = "b_next"
  /\ IF ChunkEnd(sub, lo) < sub.n
     THEN /\ lo' = lo + BatchSize
          /\ PassChunk(sub, lo + BatchSize)
          /\ txres' = "none"
          /\ bpc' = "b_begin"
          /\ UNCHANGED bres
     ELSE /\ bres' = "ok"
          /\ bpc' = "idle"
          /\ UNCHANGED <<lo, txres, chunks>>
  /\ UNCHANGED <<store, cache, pc, cur, got, inv, phase, err, seen, calls, faults,
                 down, live, extVars, listVars, sub, bidx, pos, txn, cpre, bpre, submits>>

\* Begin, a statement of the transaction, or Commit returns an error
TxFault ==
  /\ bpc \in {"b_begin", "b_update", "b_insert", "b_commit"}
  /\ faults < MaxFaults
  /\ faults' = faults + 1
  /\ IF bpc = "b_begin"
     THEN /\ txres' = "error"
          /\ bres' = "StoreError"
          /\ bpc' = "idle"
          /\ cpre' = store
          /\ txn' = store
          /\ UNCHANGED store
     ELSE TxFail("StoreError") /\ UNCHANGED <<txn, cpre>>
  /\ UNCHANGED <<cache, pc, cur, got, inv, phase, err, seen, calls,
                 down, live, extVars, listVars, sub, bidx, chunks, lo, pos, bpre, submits>>

NextBatch ==
  \/ UpsertBatch
  \/ TxBegin
  \/ TxResolve
  \/ TxUpdate
  \/ TxInsert
  \/ TxCommit
  \/ NextChunk
  \/ TxFault

InitBatch ==
  /\ store \in [BKeys -> BSeeds]
  /\ InitNoHubs
  /\ InitHandlers
  /\ InitBatchIdle
  /\ down = FALSE

\* batch submissions against the table
SpecBatch == InitBatch /\ [][NextBatch]_vars

\* -------------------------------------------- GetInventory with a filter
\* the variables a GetInventory call with a filter leaves alone
ledgerVars == <<store, cache, pc, cur, got, inv, phase, err, seen, calls, faults, down, live,
                batchVars, listVars>>

coreVars == <<ledgerVars, sideVars>>

\* the hubs of the tenant; the SKUs are CatalogSkus
FilterHubs == {"H1", "H2"}

\* the (tenant, hub, SKU) pairs that can have a row: S1 can be stocked in
\* both hubs
FKeys == {<<"T1", "H1", "S1">>, <<"T1", "H1", "S2">>, <<"T1", "H2", "S1">>}

\* a row is absent or holds stock
FSeeds == {NoRow, Row(2, 1, 1, 0)}

\* the SKU codes a filter can name: S9 is not in the catalog
RequestCodes == {"S1", "S2", "S9"}

MaxPage == 2       \* largest page number of a filter
MaxSize == 2       \* largest page size of a filter below the limit

DefaultPageSize == 20
MaxPageSize == 100

\* models.InventoryFilter with a hub code or SKU codes; hub "" is no hub
\* filter, H9 is not in the catalog
Filters ==
  {f \in [hub : {"", "H1", "H9"}, codes : SUBSET RequestCodes, page : 0..MaxPage,
           size : (0..MaxSize) \cup {MaxPageSize + 1}] :
     f.hub # "" \/ f.codes # {}}

\* the pagination defaults of service GetInventory
NormPage(f) == IF f.page <= 0 THEN 1 ELSE f.page

NormSize(f) == IF f.size <= 0 \/ f.size > MaxPageSize THEN DefaultPageSize ELSE f.size

\* the rows the WHERE and JOIN clauses of the query select
Matching(f) ==
  {k \in FKeys : /\ store[k] # NoRow
                 /\ f.hub = "" \/ k[2] = f.hub
                 /\ f.codes = {} \/ k[3] \in f.codes}

\* the orders in which a query without ORDER BY can return the rows S
Orders(S) ==
  {o \in [1..Cardinality(S) -> S] : \A i, j \in 1..Cardinality(S) : o[i] = o[j] => i = j}

\* Offset((page - 1) * pageSize).Limit(pageSize) of the rows in order o
PageOf(o, page, size) ==
  LET offset == (page - 1) * size
      n == Cardinality(DOMAIN o)
  IN {o[i] : i \in {j \in 1..n : j > offset /\ j <= offset + size}}

\* a row as the caller sees it, and the record made up for a SKU code that
\* has none: HubID is uuid.Nil (hub ""), every counter 0
RealEntry(k) == [sku |-> k[3], hub |-> k[2], counters |-> store[k]]

ZeroEntry(c) == [sku |-> c, hub |-> "", counters |-> ZeroInventory]

\* the padding without the lookup of the SKU code in the catalog
Pad_KeepsUnknown(rows, f) ==
  rows \cup {ZeroEntry(c) : c \in f.codes \ {e.sku : e \in rows}}

\* the padding of service GetInventory: the requested codes that no returned
\* row carries and that skuRepo.GetByCode resolves get a zero record
Pad(rows, f) ==
  rows \cup {ZeroEntry(c) : c \in (f.codes \ {e.sku : e \in rows}) \cap CatalogSkus}

\* service GetInventory is called with a filter
FilteredGetInventory ==
  /\ fpc = "idle"
  /\ \E f \in Filters : freq' = f
  /\ fpc' = "f_count"
  /\ UNCHANGED <<coreVars, lockVars, catVars, frows, ftotal, fres>>

\* repository GetInventory: resolve the hub code, then Count of the query
RepoFilterCount ==
  /\ fpc = "f_count"
  /\ IF freq.hub # "" /\ freq.hub \notin FilterHubs
     THEN /\ fres' = [err |-> "InvalidHub", entries |-> {}, total |-> 0]
          /\ fpc' = "f_done"
          /\ UNCHANGED ftotal
     ELSE /\ ftotal' = Cardinality(Matching(freq))
          /\ fpc' = "f_find"
          /\ UNCHANGED fres
  /\ UNCHANGED <<coreVars, lockVars, catVars, freq, frows>>

\* repository GetInventory: Find of the page
RepoFilterFind ==
  /\ fpc = "f_find"
  /\ \E o \in Orders(Matching(freq)) :
       frows' = {RealEntry(k) : k \in PageOf(o, NormPage(freq), NormSize(freq))}
  /\ fpc' = "f_pad"
  /\ UNCHANGED <<coreVars, lockVars, catVars, freq, ftotal, fres>>

\* service GetInventory pads the rows and returns
ReturnFiltered ==
  /\ fpc = "f_pad"
  /\ fres' = [err |-> "none", entries |-> Pad(frows, freq), total |-> ftotal]
  /\ fpc' = "f_done"
  /\ UNCHANGED <<coreVars, lockVars, catVars, freq, frows, ftotal>>

NextFilter ==
  \/ FilteredGetInventory
  \/ RepoFilterCount
  \/ RepoFilterFind
  \/ ReturnFiltered

InitFilter ==
  /\ store \in [FKeys -> FSeeds]
  /\ InitNoHubs
  /\ InitHandlers
  /\ InitBatchIdle
  /\ down = FALSE

\* one GetInventory call with a filter against the table
SpecFilter == InitFilter /\ [][NextFilter]_vars

\* ------------------------------------------- pagination of the list queries
\* a query parameter: absent, a text that is no number, or a number
NoParam == [given |-> FALSE]

Junk == [given |-> TRUE, num |-> FALSE]

Num(n) == [given |-> TRUE, num |-> TRUE, val |-> n]

\* the page and page_size values a request can carry
PageValues == {0 - 1, 0, 1, MaxPage}

SizeValues == {0 - 1, 0, 1, MaxSize, MaxPageSize, MaxPageSize + 1}

PageParams == {NoParam, Junk} \cup {Num(n) : n \in PageValues}

SizeParams == {NoParam, Junk} \cup {Num(n) : n \in SizeValues}

\* GET /inventory, GET /hubs, GET /skus, and a call of service GetInventory
\* with a filter built by another caller
Routes == {"inventory", "hubs", "skus", "service"}

\* strconv.Atoi with the error dropped: 0 for a text that is no number
Atoi(x) == IF x.given /\ x.num THEN x.val ELSE 0

\* c.DefaultQuery(key, d): d when the parameter is absent
DefaultQuery(x, d) == IF x.given THEN x ELSE Num(d)

\* InventoryHandler.GetInventory: a page size above 100 becomes 100
HandlerGetInventory(p, z) ==
  [page |-> IF Atoi(p) < 1 THEN 1 ELSE Atoi(p),
   size |-> IF Atoi(z) > MaxPageSize THEN MaxPageSize
            ELSE IF Atoi(z) <= 0 THEN DefaultPageSize ELSE Atoi(z)]

\* the normalisation without the upper limit
getPaginationParams_NoLimit(p, z) ==
  LET page == Atoi(DefaultQuery(p, 1))
      size == Atoi(DefaultQuery(z, DefaultPageSize))
  IN [page |-> IF page <= 0 THEN 1 ELSE page,
      size |-> IF size <= 0 THEN DefaultPageSize ELSE size]

\* getPaginationParams of the SKU handler, and the same statements of
\* HubHandler.ListHubs: a page size above 100 becomes 20
getPaginationParams(p, z) ==
  LET page == Atoi(DefaultQuery(p, 1))
      size == Atoi(DefaultQuery(z, DefaultPageSize))
  IN [page |-> IF page <= 0 THEN 1 ELSE page,
      size |-> IF size <= 0 \/ size > MaxPageSize THEN DefaultPageSize ELSE size]

\* service GetInventory and service ListHubs: the defaults applied to the
\* page and page size they are called with
ServiceDefaults(e) == [page |-> NormPage(e), size |-> NormSize(e)]

\* a list request arrives; the filter of a direct service call holds numbers
\* (0 when the caller left the field out)
ListRequest ==
  /\ ppc = "idle"
  /\ \E r \in Routes, p \in PageParams, z \in SizeParams :
       /\ r = "service" => (p.given /\ p.num /\ z.given /\ z.num)
       /\ preq' = [route |-> r, page |-> p, size |-> z]
       /\ IF r = "service"
          THEN ppc' = "service" /\ peff' = [page |-> p.val, size |-> z.val]
          ELSE ppc' = "handler" /\ UNCHANGED peff
  /\ UNCHANGED <<ledgerVars, filterVars, lockVars, catVars, besidePage>>

\* the HTTP handler parses and normalises the parameters; the SKU service is
\* not part of the sources, so a /skus request ends with what the handler
\* hands on
HandlerNormalise ==
  /\ ppc = "handler"
  /\ peff' = IF preq.route = "inventory" THEN HandlerGetInventory(preq.page, preq.size)
             ELSE getPaginationParams(preq.page, preq.size)
  /\ ppc' = IF preq.route = "skus" THEN "done" ELSE "service"
  /\ UNCHANGED <<ledgerVars, filterVars, lockVars, catVars, besidePage, preq>>

\* the service applies its defaults and calls the repository
ServiceNormalise ==
  /\ ppc = "service"
  /\ peff' = ServiceDefaults(peff)
  /\ ppc' = "done"
  /\ UNCHANGED <<ledgerVars, filterVars, lockVars, catVars, besidePage, preq>>

NextPage ==
  \/ ListRequest
  \/ HandlerNormalise
  \/ ServiceNormalise

\* one list request through the handler and the service
SpecPage == Init /\ [][NextPage]_vars

\* ------------------------------- the inventories table as a heap of rows
\* Concurrent transactions of repository UpsertInventory under READ
\* COMMITTED: a statement sees the committed rows and the rows of its own
\* transaction; an UPDATE holds the row lock until the transaction ends; an
\* INSERT waits for an open transaction that inserted the same (hub, SKU).
RowIds == 1..MaxRows

\* a row of the heap: by is the open transaction that inserted it, 0 once
\* committed
HeapRow(k, c, by) == [key |-> k, c |-> c, by |-> by]

\* the rows a statement of transaction p sees for key k
Visible(p, k) == {i \in RowIds : heap[i] # NoRow /\ heap[i].key = k /\ heap[i].by \in {0, p}}

\* an inventories table without UNIQUE(hub_id, sku_id)
Conflicting_NoConstraint(k) == {}

\* the rows UNIQUE(hub_id, sku_id) compares an inserted row with: every row
\* of the index, committed or not
Conflicting(k) == {i \in RowIds : heap[i] # NoRow /\ heap[i].key = k}

\* tx.Rollback, and the end of the transaction after a failed commit: the
\* rows it inserted go, what it staged is dropped, its locks are released
Aborted(p, res) ==
  /\ heap' = [i \in RowIds |-> IF heap[i] # NoRow /\ heap[i].by = p THEN NoRow ELSE heap[i]]
  /\ rlock' = [i \in RowIds |-> IF rlock[i] = p THEN 0 ELSE rlock[i]]
  /\ rstage' = [rstage EXCEPT ![p] = [ids |-> {}, qty |-> 0]]
  /\ rres' = [rres EXCEPT ![p] = res]
  /\ rpc' = [rpc EXCEPT ![p] = "idle"]

\* repository UpsertInventory is called with one update: Begin
HeapUpsert(p) ==
  /\ rpc[p] = "idle"
  /\ rcount < MaxRowCalls
  /\ rcount' = rcount + 1
  /\ \E k \in BKeys, q \in 1..MaxQty : rarg' = [rarg EXCEPT ![p] = [key |-> k, qty |-> q]]
  /\ rpc' = [rpc EXCEPT ![p] = "r_update"]
  /\ rres' = [rres EXCEPT ![p] = "pending"]
  /\ UNCHANGED <<ledgerVars, filterVars, lockVars, catVars, besideRows, heap, rlock, rstage,
                 rfaults>>

\* the UPDATE of quantity: it waits for the row locks, and with no row
\* affected the INSERT follows
HeapUpdate(p) ==
  /\ rpc[p] = "r_update"
  /\ LET m == Visible(p, rarg[p].key) IN
     /\ \A i \in m : rlock[i] \in {0, p}
     /\ rlock' = [i \in RowIds |-> IF i \in m THEN p ELSE rlock[i]]
     /\ rstage' = [rstage EXCEPT ![p] = [ids |-> m, qty |-> rarg[p].qty]]
     /\ rpc' = [rpc EXCEPT ![p] = IF m = {} THEN "r_insert" ELSE "r_commit"]
  /\ UNCHANGED <<ledgerVars, filterVars, lockVars, catVars, besideRows, heap, rarg, rres,
                 rcount, rfaults>>

\* tx.Create: it waits while an open transaction holds a row with the key in
\* the index; a committed row with the key is a unique violation, after
\* which the call rolls back and returns the error
HeapInsert(p) ==
  /\ rpc[p] = "r_insert"
  /\ LET k == rarg[p].key
         free == {i \in RowIds : heap[i] = NoRow}
     IN /\ \A i \in Conflicting(k) : heap[i].by \in {0, p}
        /\ IF Conflicting(k) # {}
           THEN Aborted(p, "UniqueViolation")
           ELSE /\ free # {}
                /\ LET i == CHOOSE x \in free : \A y \in free : x <= y IN
                   heap' = [heap EXCEPT ![i] = HeapRow(k, Row(rarg[p].qty, 0, 0, 0), p)]
                /\ rpc' = [rpc EXCEPT ![p] = "r_commit"]
                /\ UNCHANGED <<rlock, rstage, rres>>
  /\ UNCHANGED <<ledgerVars, filterVars, lockVars, catVars, besideRows, rarg, rcount, rfaults>>

\* tx.Commit: the staged quantity and the inserted rows become visible
HeapCommit(p) ==
  /\ rpc[p] = "r_commit"
  /\ heap' = [i \in RowIds |->
                IF heap[i] = NoRow THEN NoRow
                ELSE IF i \in rstage[p].ids
                THEN [heap[i] EXCEPT !.c = UpsertRow(@, rstage[p].qty), !.by = 0]
                ELSE IF heap[i].by = p THEN [heap[i] EXCEPT !.by = 0]
                ELSE heap[i]]
  /\ rlock' = [i \in RowIds |-> IF rlock[i] = p THEN 0 ELSE rlock[i]]
  /\ rstage' = [rstage EXCEPT ![p] = [ids |-> {}, qty |-> 0]]
  /\ rres' = [rres EXCEPT ![p] = "ok"]
  /\ rpc' = [rpc EXCEPT ![p] = "idle"]
  /\ UNCHANGED <<ledgerVars, filterVars, lockVars, catVars, besideRows, rarg, rcount, rfaults>>

\* tx.Commit returns an error
HeapCommitFails(p) ==
  /\ rpc[p] = "r_commit"
  /\ rfaults < MaxFaults
  /\ rfaults' = rfaults + 1
  /\ Aborted(p, "StoreError")
  /\ UNCHANGED <<ledgerVars, filterVars, lockVars, catVars, besideRows, rarg, rcount>>

\* the UPDATE statement of a delta update (reserve, release, fulfill) on the
\* pooled connection: it commits on its own
HeapDelta(p) ==
  /\ rpc[p] = "idle"
  /\ rcount < MaxRowCalls
  /\ rcount' = rcount + 1
  /\ \E k \in BKeys, col \in {"reserved", "available"}, d \in {0 - 1, 1} :
       LET m == Visible(0, k) IN
       /\ \A i \in m : rlock[i] = 0
       /\ heap' = [i \in RowIds |->
                     IF i \in m THEN [heap[i] EXCEPT !.c = ApplyDelta(@, [col |-> col, d |-> d])]
                     ELSE heap[i]]
       /\ rres' = [rres EXCEPT ![p] = IF m = {} THEN "OutOfDate" ELSE "ok"]
  /\ UNCHANGED <<ledgerVars, filterVars, lockVars, catVars, besideRows, rlock, rpc, rarg,
                 rstage, rfaults>>

NextRows ==
  \/ \E p \in Procs : HeapUpsert(p)
  \/ \E p \in Procs : HeapUpdate(p)
  \/ \E p \in Procs : HeapInsert(p)
  \/ \E p \in Procs : HeapCommit(p)
  \/ \E p \in Procs : HeapCommitFails(p)
  \/ \E p \in Procs : HeapDelta(p)

\* concurrent transactions on an inventories table that starts empty
SpecRows == Init /\ [][NextRows]_vars

\* ------------------------------------------------- the order finalizer
\* OrderFinalizerHandler of the OMS handles an order.created event: it asks
\* the IMS for the available quantity of every item, then reserveInventory
\* posts one reserve request per item, in order; on the first request that
\* fails, rollbackPreviousReservations posts release requests. One event is
\* handled and no other client writes the rows. A request that gets no
\* answer (httpClient.Do returns an error) counts as a success.

\* the (hub, SKU) pairs the items of an order name
OPairs == {<<"H1", "S1">>, <<"H1", "S2">>}

OrderItems == [hub : {"H1"}, sku : {"S1", "S2"}, qty : 0..MaxQty]

\* the item lists of an event
ItemLists == UNION {[1..n -> OrderItems] : n \in 1..MaxItems}

PairOf(item) == <<item.hub, item.sku>>

\* simulateInventoryCheck: the default branch, for SKU codes that start with
\* none of L, M, K
simulateInventoryCheck(sku) == 10

\* getAvailableInventory: what the IMS holds, or the simulated number when
\* the IMS answers neither 200 nor 404
getAvailableInventory(item) ==
  IF accepts THEN ostock[PairOf(item)].available ELSE simulateInventoryCheck(item.sku)

\* an order.created event arrives
OrderCreated ==
  /\ opc = "idle" /\ ores = "none"
  /\ \E l \in ItemLists, a \in BOOLEAN, f \in [OPairs -> 0..MaxSeed] :
       /\ oitems' = l
       /\ accepts' = a
       /\ ostock' = [k \in OPairs |-> Row(f[k], f[k], 0, 0)]
  /\ opc' = "check"
  /\ UNCHANGED <<ledgerVars, filterVars, lockVars, catVars, besideOrder,
                 oidx, ofailed, ridx, opre, ores, olost>>

\* checkInventoryAvailability: every item, taken alone, is available
checkInventoryAvailability ==
  /\ opc = "check"
  /\ IF \A i \in DOMAIN oitems : getAvailableInventory(oitems[i]) >= oitems[i].qty
     THEN opc' = "reserve" /\ oidx' = 1 /\ opre' = ostock /\ UNCHANGED ores
     ELSE opc' = "done" /\ ores' = "on_hold" /\ UNCHANGED <<oidx, opre>>
  /\ UNCHANGED <<ledgerVars, filterVars, lockVars, catVars, besideOrder,
                 oitems, accepts, ofailed, ridx, ostock, olost>>

\* what the IMS answers to a reserve or release request for an item: 400 for
\* a tenant header it cannot parse or a quantity that is not positive, 409 or
\* 500 when the service returns an error, else 200
ImsStatus(op, item) ==
  IF ~accepts \/ item.qty <= 0 THEN 400
  ELSE IF CheckError(op, ostock[PairOf(item)], item.qty) # "none"
       THEN IF op = "Reserve" THEN 409 ELSE 500
  ELSE 200

\* the rows after the IMS served a request it answers with 200
ImsServe(op, item) ==
  [ostock EXCEPT ![PairOf(item)] =
     ApplyDelta(ApplyDelta(@, Delta(op, "first", item.qty)), Delta(op, "second", item.qty))]

\* reserveItemInventory for the item the loop is at
reserveItemInventory ==
  /\ opc = "reserve" /\ oidx <= Len(oitems)
  /\ IF ImsStatus("Reserve", oitems[oidx]) = 200
     THEN /\ ostock' = ImsServe("Reserve", oitems[oidx])
          /\ oidx' = oidx + 1
          /\ UNCHANGED <<opc, ofailed, ridx>>
     ELSE /\ ofailed' = oidx
          /\ opc' = "rollback"
          /\ ridx' = 1
          /\ UNCHANGED <<ostock, oidx>>
  /\ UNCHANGED <<ledgerVars, filterVars, lockVars, catVars, besideOrder,
                 oitems, accepts, opre, ores, olost>>

\* a reserve request gets no answer: reserveItemInventory returns nil
reserveItemUnanswered ==
  /\ opc = "reserve" /\ oidx <= Len(oitems)
  /\ olost < MaxLost
  /\ olost' = olost + 1
  /\ oidx' = oidx + 1
  /\ UNCHANGED <<ledgerVars, filterVars, lockVars, catVars, besideOrder,
                 oitems, accepts, opc, ofailed, ridx, ostock, opre, ores>>

\* reserveInventory returns nil after the last item
reserveInventoryReturns ==
  /\ opc = "reserve" /\ oidx > Len(oitems)
  /\ opc' = "done"
  /\ ores' = "reserved"
  /\ UNCHANGED <<ledgerVars, filterVars, lockVars, catVars, besideOrder,
                 oitems, accepts, oidx, ofailed, ridx, ostock, opre, olost>>

\* rollbackPreviousReservations: the loop stops at the first item that has
\* the SKU and the hub of the failed item
StopsAt(i) ==
  /\ oitems[i].sku = oitems[ofailed].sku
  /\ oitems[i].hub = oitems[ofailed].hub

\* rollbackPreviousReservations: the loop ends, reserveInventory returns the
\* error
rollbackReturns ==
  /\ opc = "rollback"
  /\ ridx > Len(oitems) \/ StopsAt(ridx)
  /\ opc' = "done"
  /\ ores' = "failed"
  /\ UNCHANGED <<ledgerVars, filterVars, lockVars, catVars, besideOrder,
                 oitems, accepts, oidx, ofailed, ridx, ostock, opre, olost>>

\* rollbackPreviousReservations: releaseItemInventory for the item the loop
\* is at; its error is dropped
rollbackPreviousReservations ==
  /\ opc = "rollback"
  /\ ridx <= Len(oitems) /\ ~StopsAt(ridx)
  /\ ostock' = IF ImsStatus("Release", oitems[ridx]) = 200
               THEN ImsServe("Release", oitems[ridx]) ELSE ostock
  /\ ridx' = ridx + 1
  /\ UNCHANGED <<ledgerVars, filterVars, lockVars, catVars, besideOrder,
                 oitems, accepts, opc, oidx, ofailed, opre, ores, olost>>

\* a release request of the rollback gets no answer
rollbackUnanswered ==
  /\ opc = "rollback"
  /\ ridx <= Len(oitems) /\ ~StopsAt(ridx)
  /\ olost < MaxLost
  /\ olost' = olost + 1
  /\ ridx' = ridx + 1
  /\ UNCHANGED <<ledgerVars, filterVars, lockVars, catVars, besideOrder,
                 oitems, accepts, opc, oidx, ofailed, ostock, opre, ores>>

NextOrder ==
  \/ OrderCreated
  \/ checkInventoryAvailability
  \/ reserveItemInventory
  \/ reserveItemUnanswered
  \/ reserveInventoryReturns
  \/ rollbackReturns
  \/ rollbackPreviousReservations
  \/ rollbackUnanswered

\* one order.created event handled by the finalizer
SpecOrder == Init /\ [][NextOrder]_vars

\* ------------------------------------------------- the CSV order pipeline
\* processBatch of the OMS: a first pass parses and validates every record
\* and appends the good ones to validOrders; SaveOrdersBatch saves the orders
\* one by one and counts the saves and the failures; then
\* emitOrderCreatedEvent is called in a loop over the orders. A save fails
\* when orders.CreateOrder returns an error.

\* the batches: each record is good (TRUE) or fails parsing or validation
Batches == UNION {[1..n -> BOOLEAN] : n \in 1..MaxRecords}

\* processBatch is called with a batch
processBatch ==
  /\ bpos = "idle" /\ records = <<>>
  /\ \E b \in Batches : records' = b
  /\ bpos' = "parse"
  /\ bi' = 1
  /\ UNCHANGED <<ledgerVars, filterVars, lockVars, catVars, besideCsv,
                 validOrders, savedCount, failedCount, validCount, invalidCount,
                 savedOrders, emitted>>

\* first pass, one record: parseOrderFromRecord and validateOrderWithIMS
parseRecord ==
  /\ bpos = "parse" /\ bi <= Len(records)
  /\ IF records[bi]
     THEN validOrders' = Append(validOrders, bi) /\ UNCHANGED invalidCount
     ELSE invalidCount' = invalidCount + 1 /\ UNCHANGED validOrders
  /\ bi' = bi + 1
  /\ UNCHANGED <<ledgerVars, filterVars, lockVars, catVars, besideCsv,
                 records, bpos, savedCount, failedCount, validCount, savedOrders, emitted>>

\* the first pass is over: SaveOrdersBatch is called when there is an order
parsed ==
  /\ bpos = "parse" /\ bi > Len(records)
  /\ bpos' = IF Len(validOrders) > 0 THEN "save" ELSE "done"
  /\ bi' = 1
  /\ UNCHANGED <<ledgerVars, filterVars, lockVars, catVars, besideCsv,
                 records, validOrders, savedCount, failedCount, validCount, invalidCount,
                 savedOrders, emitted>>

\* SaveOrdersBatch, one order: saveOrderToMongoDB returns nil
saveOrderToMongoDB ==
  /\ bpos = "save" /\ bi <= Len(validOrders)
  /\ savedOrders' = savedOrders \cup {validOrders[bi]}
  /\ savedCount' = savedCount + 1
  /\ bi' = bi + 1
  /\ UNCHANGED <<ledgerVars, filterVars, lockVars, catVars, besideCsv,
                 records, bpos, validOrders, failedCount, validCount, invalidCount, emitted>>

\* SaveOrdersBatch, one order: saveOrderToMongoDB returns an error
saveOrderFails ==
  /\ bpos = "save" /\ bi <= Len(validOrders)
  /\ failedCount' = failedCount + 1
  /\ bi' = bi + 1
  /\ UNCHANGED <<ledgerVars, filterVars, lockVars, catVars, besideCsv,
                 records, bpos, validOrders, savedCount, validCount, invalidCount,
                 savedOrders, emitted>>

\* SaveOrdersBatch returns savedCount, failedCount, nil
SaveOrdersBatch ==
  /\ bpos = "save" /\ bi > Len(validOrders)
  /\ validCount' = validCount + savedCount
  /\ invalidCount' = invalidCount + failedCount
  /\ bpos' = "emit"
  /\ bi' = 1
  /\ UNCHANGED <<ledgerVars, filterVars, lockVars, catVars, besideCsv,
                 records, validOrders, savedCount, failedCount, savedOrders, emitted>>

\* the emit loop: index i of kafkaEvents, counted from 0, is below validCount
Emits(i) == i < validCount

\* the emit loop, one order
emitOrderCreatedEvent ==
  /\ bpos = "emit" /\ bi <= Len(validOrders)
  /\ emitted' = IF Emits(bi - 1) THEN emitted \cup {validOrders[bi]} ELSE emitted
  /\ bi' = bi + 1
  /\ UNCHANGED <<ledgerVars, filterVars, lockVars, catVars, besideCsv,
                 records, bpos, validOrders, savedCount, failedCount, validCount, invalidCount,
                 savedOrders>>

\* processBatch returns
batchProcessed ==
  /\ bpos = "emit" /\ bi > Len(validOrders)
  /\ bpos' = "done"
  /\ UNCHANGED <<ledgerVars, filterVars, lockVars, catVars, besideCsv,
                 records, bi, validOrders, savedCount, failedCount, validCount, invalidCount,
                 savedOrders, emitted>>

NextCsv ==
  \/ processBatch
  \/ parseRecord
  \/ parsed
  \/ saveOrderToMongoDB
  \/ saveOrderFails
  \/ SaveOrdersBatch
  \/ emitOrderCreatedEvent
  \/ batchProcessed

\* one batch through processBatch
SpecCsv == Init /\ [][NextCsv]_vars

\* ------------------------------------------ repository GetInventoryWithLock
\* the one triple the callers contend for
LockKey == <<"T1", "H1", "S1">>

\* GetInventoryWithLock: SELECT ... FOR UPDATE issued on GetMasterDB(ctx),
\* the connection pool, outside any transaction: the statement waits for the
\* row lock and reads the row (the zero record when there is none)
LockedSelect(p) ==
  /\ lpc[p] = "idle"
  /\ rowLock = 0
  /\ \E q \in 1..MaxQty : lqty' = [lqty EXCEPT ![p] = q]
  /\ rowLock' = p
  /\ lgot' = [lgot EXCEPT ![p] = Counters(store[LockKey])]
  /\ lpc' = [lpc EXCEPT ![p] = "l_select"]
  /\ UNCHANGED <<coreVars, filterVars, catVars>>

\* the statement ends: its implicit transaction commits, which releases the
\* lock, and GetInventoryWithLock returns the record
LockedSelectReturns(p) ==
  /\ lpc[p] = "l_select"
  /\ rowLock' = 0
  /\ lpc' = [lpc EXCEPT ![p] = "l_have"]
  /\ UNCHANGED <<coreVars, filterVars, catVars, lgot, lqty>>

\* the caller's conditional write: take the quantity if the record it read
\* has it available (the UPDATE of UpdateAvailableQuantity waits for the row
\* lock)
ConditionalWrite(p) ==
  /\ lpc[p] = "l_have"
  /\ rowLock = 0
  /\ IF lgot[p].available >= lqty[p] /\ store[LockKey] # NoRow
     THEN store' = [store EXCEPT ![LockKey] = UpdateAvailableQuantity(@, 0 - lqty[p])]
     ELSE UNCHANGED store
  /\ lpc' = [lpc EXCEPT ![p] = "l_done"]
  /\ UNCHANGED <<cache, pc, cur, got, inv, phase, err, seen, calls, faults, down, live,
                 batchVars, listVars, filterVars, catVars, sideVars, lgot, lqty, rowLock>>

NextLock ==
  \/ \E p \in Procs : LockedSelect(p)
  \/ \E p \in Procs : LockedSelectReturns(p)
  \/ \E p \in Procs : ConditionalWrite(p)

\* callers that read under lock and then write
SpecLock == Init /\ [][NextLock]_vars

\* --------------------------------------- the catalog directory: hubRepository
\* (skuRepository follows the same statements for SKUs)
HubIds == 1..MaxHubIds

\* a row of hubs: its code, and whether deleted_at is NULL
HubRow(c, l) == [code |-> c, live |-> l]

\* UNIQUE(tenant_id, code) of the hubs table: it counts soft-deleted rows too
UniqueCodes(t) ==
  \A i, j \in HubIds :
    (t[i] # NoRow /\ t[j] # NoRow /\ t[i].code = t[j].code) => i = j

HubTables ==
  {t \in [HubIds -> {NoRow} \cup {HubRow(c, l) : c \in Codes, l \in BOOLEAN}] :
     UniqueCodes(t)}

\* the models.Hub value a lookup returns and cacheHub stores
Entity(i, c) == [id |-> i, code |-> c]

\* First(&hub) by primary key: gorm adds deleted_at IS NULL
IsLive(t, i) == t[i] # NoRow /\ t[i].live

\* Where("tenant_id = ? AND code = ?").First(&hub)
LiveWithCode(t, c) == {i \in HubIds : IsLive(t, i) /\ t[i].code = c}

\* the rows the unique constraint compares an inserted code with
AnyWithCode(t, c) == {i \in HubIds : t[i] # NoRow /\ t[i].code = c}

Snapshot == [hubs |-> hubs, idCache |-> idCache, codeCache |-> codeCache]

SnapshotAfter == [hubs |-> hubs', idCache |-> idCache', codeCache |-> codeCache']

HubInFlight == {hcur[p] : p \in {r \in Procs : hpc[r] # "idle"}}

HubSequential == HubInFlight = {} /\ \A i \in DOMAIN hcalls : hcalls[i].conc = {}

\* a catalog call starts on the first idle handler; hcalls records its
\* arguments, its result, the table and the caches when it started (pre) and
\* when it returned (post), the calls that overlapped it (conc) and the hub a
\* lookup returned (val)
HubBegin(p, o, i, c) ==
  /\ hpc[p] = "idle"
  /\ \A r \in Procs : r < p => hpc[r] # "idle"
  /\ \/ Len(hcalls) < MaxCatCalls
     \/ HubSequential /\ Len(hcalls) < MaxCatSeqCalls
  /\ LET n == Len(hcalls) + 1
         old == [x \in DOMAIN hcalls |->
                   IF x \in HubInFlight THEN [hcalls[x] EXCEPT !.conc = @ \cup {n}]
                   ELSE hcalls[x]]
     IN /\ hcalls' = Append(old, [op |-> o, id |-> i, code |-> c, res |-> "pending",
                                  pre |-> Snapshot, post |-> Snapshot,
                                  conc |-> HubInFlight, val |-> NoRow])
        /\ hcur' = [hcur EXCEPT ![p] = n]

\* the call returns res (and, for a lookup, the hub v)
HubFinish(p, res, v) ==
  /\ hcalls' = [hcalls EXCEPT ![hcur[p]].res = res, ![hcur[p]].post = SnapshotAfter,
                              ![hcur[p]].val = v]
  /\ hpc' = [hpc EXCEPT ![p] = "idle"]
  /\ hent' = [hent EXCEPT ![p] = NoRow]

\* cacheHub: SET of "hub:<id>" and of "hub:code:<tenant>:<code>"; the
\* result of SET is not looked at
cacheHub(e) ==
  IF encodes
  THEN /\ idCache' = [idCache EXCEPT ![e.id] = e]
       /\ codeCache' = [codeCache EXCEPT ![e.code] = e]
  ELSE UNCHANGED <<idCache, codeCache>>

\* deleteHubFromCache: DEL of both keys
deleteHubFromCache(e) ==
  /\ idCache' = [idCache EXCEPT ![e.id] = Miss]
  /\ codeCache' = [codeCache EXCEPT ![e.code] = Miss]

HubArg(p) == hcalls[hcur[p]]

\* hubRepository.Create
HubCreate(p) ==
  /\ \E c \in Codes : HubBegin(p, "Create", 0, c)
  /\ Cardinality({i \in HubIds : hubs[i] = NoRow}) >
       Cardinality({r \in Procs : hpc[r] \in {"c_check", "c_insert"}})
  /\ hpc' = [hpc EXCEPT ![p] = "c_check"]
  /\ UNCHANGED <<coreVars, filterVars, lockVars, hubs, idCache, codeCache, encodes, hent>>

\* Create: the lookup of a hub with the same tenant and code
HubCreateCheck(p) ==
  /\ hpc[p] = "c_check"
  /\ UNCHANGED <<coreVars, filterVars, lockVars, hubs, idCache, codeCache, encodes, hcur>>
  /\ IF LiveWithCode(hubs, HubArg(p).code) # {}
     THEN HubFinish(p, "DuplicateCode", NoRow)
     ELSE /\ hpc' = [hpc EXCEPT ![p] = "c_insert"]
          /\ UNCHANGED <<hent, hcalls>>

\* Create: the INSERT; the unique constraint rejects a code that a row has
HubCreateInsert(p) ==
  /\ hpc[p] = "c_insert"
  /\ UNCHANGED <<coreVars, filterVars, lockVars, idCache, codeCache, encodes, hcur>>
  /\ LET c == HubArg(p).code
         i == CHOOSE x \in HubIds : hubs[x] = NoRow /\ \A y \in HubIds : hubs[y] = NoRow => x <= y
     IN IF AnyWithCode(hubs, c) # {}
        THEN UNCHANGED hubs /\ HubFinish(p, "StoreError", NoRow)
        ELSE /\ hubs' = [hubs EXCEPT ![i] = HubRow(c, TRUE)]
             /\ hent' = [hent EXCEPT ![p] = Entity(i, c)]
             /\ hpc' = [hpc EXCEPT ![p] = "c_cache"]
             /\ UNCHANGED hcalls

\* Create, Update, GetByID, GetByCode: cacheHub of the hub, then return
HubCacheSet(p) ==
  /\ hpc[p] \in {"c_cache", "u_cache", "g_cache"}
  /\ UNCHANGED <<coreVars, filterVars, lockVars, hubs, encodes, hcur>>
  /\ cacheHub(hent[p])
  /\ HubFinish(p, "ok", IF hpc[p] = "g_cache" THEN hent[p] ELSE NoRow)

\* hubRepository.Update of the code of a hub
HubUpdate(p) ==
  /\ \E i \in HubIds, c \in Codes : HubBegin(p, "Update", i, c)
  /\ hpc' = [hpc EXCEPT ![p] = "u_first"]
  /\ UNCHANGED <<coreVars, filterVars, lockVars, hubs, idCache, codeCache, encodes, hent>>

\* Update: First(existing, hub.ID)
HubUpdateFirst(p) ==
  /\ hpc[p] = "u_first"
  /\ UNCHANGED <<coreVars, filterVars, lockVars, hubs, idCache, codeCache, encodes, hcur>>
  /\ LET i == HubArg(p).id IN
     IF ~IsLive(hubs, i)
     THEN HubFinish(p, "NotFound", NoRow)
     ELSE /\ hent' = [hent EXCEPT ![p] = Entity(i, hubs[i].code)]
          /\ hpc' = [hpc EXCEPT ![p] = "u_check"]
          /\ UNCHANGED hcalls

\* Update without the lookup of another hub with the new code
HubUpdateCheck_NoLookup(p) ==
  /\ hpc[p] = "u_check"
  /\ UNCHANGED <<coreVars, filterVars, lockVars, hubs, idCache, codeCache, encodes, hcur>>
  /\ hpc' = [hpc EXCEPT ![p] = "u_save"]
  /\ UNCHANGED <<hent, hcalls>>

\* Update: when the code changes, the lookup of another hub with the new code
HubUpdateCheck(p) ==
  /\ hpc[p] = "u_check"
  /\ UNCHANGED <<coreVars, filterVars, lockVars, hubs, idCache, codeCache, encodes, hcur>>
  /\ LET a == HubArg(p) IN
     IF hent[p].code # a.code /\ LiveWithCode(hubs, a.code) \ {a.id} # {}
     THEN HubFinish(p, "DuplicateCode", NoRow)
     ELSE /\ hpc' = [hpc EXCEPT ![p] = "u_save"]
          /\ UNCHANGED <<hent, hcalls>>

\* Update: Save(hub). The unique constraint rejects a code another row has.
\* When the row was soft-deleted since First, the UPDATE matches no live row
\* and what Save does next is the ORM's choice: nothing, or writing the row
\* back
HubUpdateSave(p) ==
  /\ hpc[p] = "u_save"
  /\ UNCHANGED <<coreVars, filterVars, lockVars, idCache, codeCache, encodes, hcur>>
  /\ LET a == HubArg(p) IN
     IF AnyWithCode(hubs, a.code) \ {a.id} # {}
     THEN UNCHANGED hubs /\ HubFinish(p, "StoreError", NoRow)
     ELSE /\ \/ hubs' = [hubs EXCEPT ![a.id] = HubRow(a.code, TRUE)]
             \/ ~IsLive(hubs, a.id) /\ hubs' = hubs
          /\ hent' = [hent EXCEPT ![p] = Entity(a.id, a.code)]
          /\ hpc' = [hpc EXCEPT ![p] = "u_cache"]
          /\ UNCHANGED hcalls

\* hubRepository.Delete
HubDelete(p) ==
  /\ \E i \in HubIds : HubBegin(p, "Delete", i, "")
  /\ hpc' = [hpc EXCEPT ![p] = "d_first"]
  /\ UNCHANGED <<coreVars, filterVars, lockVars, hubs, idCache, codeCache, encodes, hent>>

\* Delete: First(hub)
HubDeleteFirst(p) ==
  /\ hpc[p] = "d_first"
  /\ UNCHANGED <<coreVars, filterVars, lockVars, hubs, idCache, codeCache, encodes, hcur>>
  /\ LET i == HubArg(p).id IN
     IF ~IsLive(hubs, i)
     THEN HubFinish(p, "NotFound", NoRow)
     ELSE /\ hent' = [hent EXCEPT ![p] = Entity(i, hubs[i].code)]
          /\ hpc' = [hpc EXCEPT ![p] = "d_delete"]
          /\ UNCHANGED hcalls

\* Delete: the soft delete, UPDATE hubs SET deleted_at = now
HubDeleteRow(p) ==
  /\ hpc[p] = "d_delete"
  /\ LET i == HubArg(p).id IN
     hubs' = IF IsLive(hubs, i) THEN [hubs EXCEPT ![i].live = FALSE] ELSE hubs
  /\ hpc' = [hpc EXCEPT ![p] = "d_cache"]
  /\ UNCHANGED <<coreVars, filterVars, lockVars, idCache, codeCache, encodes, hcur, hent,
                 hcalls>>

\* Delete: deleteHubFromCache with the id and code that First read
HubDeleteCache(p) ==
  /\ hpc[p] = "d_cache"
  /\ UNCHANGED <<coreVars, filterVars, lockVars, hubs, encodes, hcur>>
  /\ deleteHubFromCache(hent[p])
  /\ HubFinish(p, "ok", NoRow)

\* hubRepository.GetByID and GetByCode
HubLookup(p) ==
  /\ \/ \E i \in HubIds : HubBegin(p, "GetByID", i, "")
     \/ \E c \in Codes : HubBegin(p, "GetByCode", 0, c)
  /\ hpc' = [hpc EXCEPT ![p] = "g_get"]
  /\ UNCHANGED <<coreVars, filterVars, lockVars, hubs, idCache, codeCache, encodes, hent>>

\* GetByID, GetByCode: GET of the cache key; a hit returns the cached hub
HubLookupCache(p) ==
  /\ hpc[p] = "g_get"
  /\ UNCHANGED <<coreVars, filterVars, lockVars, hubs, idCache, codeCache, encodes, hcur>>
  /\ LET a == HubArg(p)
         hit == IF a.op = "GetByID" THEN idCache[a.id] ELSE codeCache[a.code]
     IN IF hit # Miss
        THEN HubFinish(p, "ok", hit)
        ELSE /\ hpc' = [hpc EXCEPT ![p] = "g_db"]
             /\ UNCHANGED <<hent, hcalls>>

\* GetByID, GetByCode: the SELECT of the live row
HubLookupDb(p) ==
  /\ hpc[p] = "g_db"
  /\ UNCHANGED <<coreVars, filterVars, lockVars, hubs, idCache, codeCache, encodes, hcur>>
  /\ LET a == HubArg(p)
         found == IF a.op = "GetByID" THEN {i \in {a.id} : IsLive(hubs, i)}
                  ELSE LiveWithCode(hubs, a.code)
     IN IF found = {}
        THEN HubFinish(p, "NotFound", NoRow)
        ELSE /\ \E i \in found : hent' = [hent EXCEPT ![p] = Entity(i, hubs[i].code)]
             /\ hpc' = [hpc EXCEPT ![p] = "g_cache"]
             /\ UNCHANGED hcalls

NextCatalog ==
  \/ \E p \in Procs : HubCreate(p)
  \/ \E p \in Procs : HubCreateCheck(p)
  \/ \E p \in Procs : HubCreateInsert(p)
  \/ \E p \in Procs : HubCacheSet(p)
  \/ \E p \in Procs : HubUpdate(p)
  \/ \E p \in Procs : HubUpdateFirst(p)
  \/ \E p \in Procs : HubUpdateCheck(p)
  \/ \E p \in Procs : HubUpdateSave(p)
  \/ \E p \in Procs : HubDelete(p)
  \/ \E p \in Procs : HubDeleteFirst(p)
  \/ \E p \in Procs : HubDeleteRow(p)
  \/ \E p \in Procs : HubDeleteCache(p)
  \/ \E p \in Procs : HubLookup(p)
  \/ \E p \in Procs : HubLookupCache(p)
  \/ \E p \in Procs : HubLookupDb(p)

\* a hubs table that satisfies its unique constraint, and empty caches
InitCatalog ==
  /\ store = [k \in Keys |-> NoRow]
  /\ InitHandlers
  /\ InitBatchIdle
  /\ down = FALSE
  /\ hubs \in HubTables
  /\ encodes \in BOOLEAN

\* concurrent calls of the hub repository
SpecCatalog == InitCatalog /\ [][NextCatalog]_vars

TypeOK ==
  /\ \A k \in Keys : store[k] = NoRow \/ store[k].quantity \in Int
  /\ faults \in 0..MaxFaults
  /\ Len(calls) <= MaxSeqCalls + MaxRepeat

\* ------------------------------------------------------------ properties
Ids == DOMAIN calls

Quiescent == \A p \in Procs : pc[p] = "idle"

Ok(i) == calls[i].res = "ok"

\* no other call was in flight at any moment of call i
Isolated(i) == calls[i].conc = {}

\* calls i and j overlapped each other and no other call
OnlyOverlap(i, j) == calls[i].conc = {j} /\ calls[j].conc = {i}

\* C1: no oversell. When two Reserve calls on the same triple overlap (and
\* nothing else runs), and both succeed, the sum of their quantities is at
\* most the available quantity before them.
C1_NoOversell ==
  \A i \in Ids, j \in Ids :
    ( /\ i < j
      /\ calls[i].op = "Reserve" /\ calls[j].op = "Reserve"
      /\ calls[i].key = calls[j].key
      /\ Ok(i) /\ Ok(j)
      /\ OnlyOverlap(i, j) )
    => calls[i].qty + calls[j].qty <= calls[i].pre.available

\* C2: in every reachable state every inventory row has available >= 0,
\* reserved >= 0 and in_transit >= 0.
C2_CountersNonNegative ==
  \A k \in Keys :
    store[k] # NoRow =>
      store[k].available >= 0 /\ store[k].reserved >= 0 /\ store[k].in_transit >= 0

\* C3: whenever no call is in flight (every mutation so far is committed),
\* every inventory row has available + reserved <= quantity.
C3_WithinQuantity ==
  Quiescent =>
    \A k \in Keys :
      store[k] # NoRow => store[k].available + store[k].reserved <= store[k].quantity

\* C4: a successful Reserve of qty changed the row by exactly available - qty
\* and reserved + qty; quantity and in_transit are unchanged. This holds of
\* the changes the call itself made whatever ran next to it, and of the row
\* before and after the call when no other call overlapped it.
C4_ReserveTransition ==
  \A i \in Ids :
    (calls[i].op = "Reserve" /\ Ok(i)) =>
      /\ calls[i].eff = Row(0, 0 - calls[i].qty, calls[i].qty, 0)
      /\ Isolated(i) =>
           /\ calls[i].pre # NoRow
           /\ calls[i].post = Row(calls[i].pre.quantity,
                                  calls[i].pre.available - calls[i].qty,
                                  calls[i].pre.reserved + calls[i].qty,
                                  calls[i].pre.in_transit)

\* a Reserve of 2 succeeded on its own on a row that had reserved stock
C4_Witness ==
  \E i \in Ids :
    /\ calls[i].op = "Reserve" /\ Ok(i) /\ Isolated(i)
    /\ calls[i].qty = 2
    /\ calls[i].post.available = 0

\* C5: a Reserve that asks for more than the row's available quantity at the
\* moment its mutation is applied fails: no Reserve statement changes a row
\* whose available quantity is below the requested quantity.
C5_ReserveInsufficient ==
  \A i \in Ids :
    (calls[i].op = "Reserve" /\ calls[i].atMut # NoRow) =>
      calls[i].qty <= calls[i].atMut.available

\* C6: round trip. A successful Reserve of qty directly followed by a
\* successful Release of the same qty on the same triple, nothing else
\* running, leaves available and reserved as they were before the Reserve.
C6_RoundTrip ==
  \A i \in Ids :
    ( /\ i + 1 \in Ids
      /\ calls[i].op = "Reserve" /\ Ok(i) /\ Isolated(i)
      /\ calls[i + 1].op = "Release" /\ Ok(i + 1) /\ Isolated(i + 1)
      /\ calls[i + 1].key = calls[i].key
      /\ calls[i + 1].qty = calls[i].qty )
    => /\ calls[i + 1].post.available = calls[i].pre.available
       /\ calls[i + 1].post.reserved = calls[i].pre.reserved

\* a Reserve of 2 and then a Release of 2 both succeeded
C6_Witness ==
  \E i \in Ids :
    /\ i + 1 \in Ids
    /\ calls[i].op = "Reserve" /\ Ok(i) /\ Isolated(i) /\ calls[i].qty = 2
    /\ calls[i + 1].op = "Release" /\ Ok(i + 1) /\ Isolated(i + 1)
    /\ calls[i + 1].qty = 2
    /\ calls[i + 1].key = calls[i].key

\* C7: a successful Fulfill of qty that no other call overlapped lowered
\* reserved by qty and quantity by qty, relative to the row in the store when
\* the call started, and left available unchanged.
C7_FulfillTransition ==
  \A i \in Ids :
    (calls[i].op = "Fulfill" /\ Ok(i) /\ Isolated(i) /\ calls[i].pre # NoRow) =>
      /\ calls[i].post.reserved = calls[i].pre.reserved - calls[i].qty
      /\ calls[i].post.quantity = calls[i].pre.quantity - calls[i].qty
      /\ calls[i].post.available = calls[i].pre.available

\* the transition each operation is specified to make on a row
Effect(c, row) ==
  CASE c.op = "Reserve" ->
         [row EXCEPT !.available = @ - c.qty, !.reserved = @ + c.qty]
    [] c.op = "Release" ->
         [row EXCEPT !.available = @ + c.qty, !.reserved = @ - c.qty]
    [] c.op = "Fulfill" ->
         [row EXCEPT !.reserved = @ - c.qty, !.quantity = @ - c.qty]
    [] c.op = "Upsert" ->
         IF row = NoRow THEN Row(c.qty, 0, 0, 0) ELSE [row EXCEPT !.quantity = c.qty]
    [] c.op = "Get" -> row

\* C8: no lost update. When the last two calls overlapped each other only,
\* both succeeded on the same triple and have returned, the row is what
\* applying the two operations one after the other, in one of the two
\* orders, gives.
C8_Serialized ==
  \A i \in Ids, j \in Ids :
    ( /\ Quiescent
      /\ i < j /\ j = Len(calls)
      /\ OnlyOverlap(i, j)
      /\ Ok(i) /\ Ok(j)
      /\ calls[i].key = calls[j].key
      /\ calls[i].pre # NoRow )
    => store[calls[i].key] \in
         { Effect(calls[j], Effect(calls[i], calls[i].pre)),
           Effect(calls[i], Effect(calls[j], calls[i].pre)) }

\* C9: a Release that asks for more than the row's reserved quantity fails
\* and changes nothing, also next to other calls: no Release statement
\* changes a row whose reserved quantity is below the requested quantity.
C9_ReleaseInsufficient ==
  \A i \in Ids :
    (calls[i].op = "Release" /\ calls[i].atMut # NoRow) =>
      calls[i].qty <= calls[i].atMut.reserved

\* C10: a Fulfill that asks for more than the row's reserved quantity fails
\* and changes nothing, also next to other calls: no Fulfill statement
\* changes a row whose reserved quantity is below the requested quantity.
C10_FulfillInsufficient ==
  \A i \in Ids :
    (calls[i].op = "Fulfill" /\ calls[i].atMut # NoRow) =>
      calls[i].qty <= calls[i].atMut.reserved

\* the call has returned
Done(i) == calls[i].res # "pending"

\* the call returned an error
Failed(i) == Done(i) /\ ~Ok(i)

Mutating(i) == calls[i].op \in {"Reserve", "Release", "Fulfill", "Upsert"}

\* C13: after UpsertInventory succeeded with quantity X for a triple, the
\* next GetInventoryItem of that triple returns quantity X, whether or not
\* the record was cached before the upsert.
C13_UpsertThenGet ==
  \A i \in Ids :
    ( /\ i + 1 \in Ids
      /\ calls[i].op = "Upsert" /\ Ok(i) /\ Isolated(i)
      /\ calls[i + 1].op = "Get" /\ Ok(i + 1) /\ Isolated(i + 1)
      /\ calls[i + 1].key = calls[i].key )
    => calls[i + 1].val.quantity = calls[i].qty

\* C15: whenever no call is in flight, every cached point-query entry equals
\* the row of its triple in the store.
C15_CacheFresh ==
  Quiescent => \A k \in Keys : cache[k] # Miss => cache[k] = store[k]

\* C16: GetInventoryItem of a triple that resolves and has no row returns,
\* without error, the record with quantity = available = reserved =
\* in_transit = 0 of that triple, and creates no row; and no triple without a
\* row ever has a cache entry.
C16_ZeroRecord ==
  /\ \A i \in Ids :
       (calls[i].op = "Get" /\ Done(i) /\ Isolated(i) /\ calls[i].pre = NoRow) =>
         /\ Ok(i)
         /\ calls[i].val = Row(0, 0, 0, 0)
         /\ calls[i].post = NoRow
  /\ \A k \in Keys : store[k] = NoRow => cache[k] = Miss

\* a point query of a triple without a row has returned
C16_Witness ==
  \E i \in Ids :
    /\ calls[i].op = "Get" /\ Done(i) /\ Isolated(i)
    /\ calls[i].pre = NoRow /\ store[calls[i].key] = NoRow

\* C17: two GetInventoryItem calls of the same triple, one directly after
\* the other with no call between them, return identical counters, whether
\* the cache entry is still there for the second call or has expired.
C17_GetIdempotent ==
  \A i \in Ids :
    ( /\ i + 1 \in Ids
      /\ calls[i].op = "Get" /\ Ok(i) /\ Isolated(i)
      /\ calls[i + 1].op = "Get" /\ Ok(i + 1) /\ Isolated(i + 1)
      /\ calls[i + 1].key = calls[i].key )
    => calls[i + 1].val = calls[i].val

C19_ListingFresh ==
  \A i \in Ids :
    ( /\ i + 1 = Len(calls) /\ Quiescent
      /\ Mutating(i) /\ Ok(i) /\ Isolated(i)
      /\ calls[i + 1].op = "List" /\ Ok(i + 1) /\ Isolated(i + 1)
      /\ Tenant(calls[i + 1].key) = Tenant(calls[i].key) )
    => calls[i + 1].val = [rows |-> Listing(Tenant(calls[i].key)),
                           total |-> Count(Tenant(calls[i].key))]

\* what a call that runs alone returns, and the row it leaves, by the
\* operation's contract: the result res and the row post
Outcome(c) ==
  LET g == Counters(c.pre)
      same(r) == [res |-> r, post |-> c.pre]
  IN CASE c.op \in {"Reserve", "Release", "Fulfill"} ->
            IF c.qty <= 0 THEN same("ValidationError")
            ELSE IF CheckError(c.op, g, c.qty) # "none"
                 THEN same(CheckError(c.op, g, c.qty))
                 ELSE [res |-> "ok", post |-> Effect(c, c.pre)]
       [] c.op = "Upsert" ->
            IF c.qty < 0 THEN same("ValidationError")
            ELSE [res |-> "ok", post |-> Effect(c, c.pre)]
       [] c.op \in {"Get", "List"} -> same("ok")

\* the value a read returned is the store's
ValueOk(c) ==
  CASE c.op = "Get" -> c.val = Counters(c.pre)
    [] c.op = "List" ->
         /\ c.val.rows[c.key] = c.pre
         /\ c.val.total = Cardinality({k \in DOMAIN c.val.rows : c.val.rows[k] # NoRow})
    [] OTHER -> TRUE

NamedAt(k, i, j) == {x \in i..j : EntryKey(Entry(sub, x)) = k}

Last(S) == CHOOSE i \in S : \A j \in S : j <= i

\* the table after entries i..j of the submission were applied in order: a
\* named triple has the quantity of its last entry and keeps its other
\* counters (zero for a new row)
ApplyEntries(table, i, j) ==
  [k \in DOMAIN table |->
     IF NamedAt(k, i, j) = {} THEN table[k]
     ELSE Row(Entry(sub, Last(NamedAt(k, i, j))).quantity,
              Counters(table[k]).available,
              Counters(table[k]).reserved,
              Counters(table[k]).in_transit)]

C12_SubmissionAtomic ==
  bres \notin {"none", "pending", "ok"} => store = bpre

\* C14: UpsertInventory changes only quantity. After a successful
\* submission, a triple it names has the quantity of its last entry and the
\* available, reserved and in_transit it had before (zero if it had no row);
\* a triple it does not name has the row it had before.
C14_OnlyQuantity ==
  bres = "ok" =>
    \A k \in DOMAIN bpre :
      IF \A i \in 1..sub.n : EntryKey(Entry(sub, i)) # k
      THEN store[k] = bpre[k]
      ELSE /\ store[k] # NoRow
           /\ store[k].quantity = Entry(sub, Last(NamedAt(k, 1, sub.n))).quantity
           /\ store[k].available = Counters(bpre[k]).available
           /\ store[k].reserved = Counters(bpre[k]).reserved
           /\ store[k].in_transit = Counters(bpre[k]).in_transit

\* a submission of one entry changed the quantity of a row with available
\* and reserved stock, next to a row it does not name
C14_Witness ==
  /\ bres = "ok" /\ sub.n = 1
  /\ \A k \in DOMAIN bpre : bpre[k] # NoRow /\ bpre[k].available > 0
  /\ \E k \in DOMAIN bpre : store[k] # bpre[k]

\* ------------------------------------------------- failures of a transition
Transition(i) == calls[i].op \in {"Reserve", "Release", "Fulfill"}

\* C23: a Reserve, Release or Fulfill call with quantity <= 0 returns a
\* validation error at once: the step that starts it reads nothing and leaves
\* the store, every cache and every other handler as they were.
C23_NonPositiveRejected ==
  [][\A p \in Procs :
       ( /\ cur'[p] # cur[p]
         /\ calls'[cur'[p]].op \in {"Reserve", "Release", "Fulfill"}
         /\ calls'[cur'[p]].qty <= 0 )
       => /\ calls'[cur'[p]].res = "ValidationError"
          /\ store' = store /\ cache' = cache
          /\ pageCache' = pageCache /\ countCache' = countCache
          /\ pc' = pc /\ got' = got]_vars

\* a Reserve with quantity 0 was rejected while the cache held the row
C23_Witness ==
  \E i \in Ids :
    /\ i > 1 /\ calls[i - 1].op = "Get" /\ calls[i - 1].pre # NoRow
    /\ Transition(i) /\ calls[i].qty <= 0 /\ calls[i].res = "ValidationError"
    /\ calls[i].post = calls[i].pre
    /\ cache[calls[i].key] # Miss

\* the call failed after its first delta update took effect, and its
\* compensating update took effect too
Compensated(i) == Transition(i) /\ Failed(i) /\ calls[i].nupd = 2

\* C26: when a Reserve, Release or Fulfill call returned an error after its
\* first delta update was applied and its compensating update succeeded, the
\* statements of the call changed no counter in sum, and the row of a call
\* that ran alone is the row from before the call.
C26_Compensated ==
  \A i \in Ids :
    Compensated(i) =>
      /\ calls[i].eff = ZeroInventory
      /\ Isolated(i) => calls[i].post = calls[i].pre

\* a call that ran alone failed on a store error after its first delta
\* update and was compensated
C26_Witness ==
  \E i \in Ids :
    /\ Compensated(i) /\ Isolated(i)
    /\ calls[i].atMut # NoRow /\ calls[i].qty > 0
    /\ calls[i].res = "StoreError"

\* ------------------------------------------- validation of a submission
\* the entry at index i of the submission has a blank code or a negative
\* quantity
Offending(i) ==
  \/ i = sub.bad /\ sub.kind \in {"blankHub", "blankSku", "negative"}
  \/ i = sub.also

\* C24: an empty submission, and a submission with an entry whose hub code
\* or SKU code is blank or whose quantity is negative, is rejected before any
\* transaction begins: the error names the first such entry (counted from 0)
\* and the table is as it was before the submission.
C24_BatchValidation ==
  submits > 0 =>
    /\ sub.n = 0 =>
         bres = "NoUpdates" /\ txres = "none" /\ store = bpre /\ bpc = "idle"
    /\ \A i \in 1..sub.n :
         (Offending(i) /\ \A j \in 1..(i - 1) : ~Offending(j)) =>
           /\ bres = "ValidationError" /\ bidx = i - 1
           /\ txres = "none" /\ store = bpre /\ bpc = "idle"

\* a submission with two offending entries was rejected with the index of
\* the earlier one, against a table that holds a row
C24_Witness ==
  /\ bres = "ValidationError"
  /\ sub.bad # 0 /\ sub.also # 0 /\ Offending(sub.bad)
  /\ bidx + 1 < sub.n
  /\ \E k \in BKeys : store[k] # NoRow

\* ------------------------------------------------- codes that do not resolve
\* C25: a Reserve, Release or Fulfill call (with a positive quantity) on a
\* hub or SKU code that the catalog does not resolve returns the reference
\* error, which is neither insufficient-stock error, and applies no update;
\* an insufficient-stock error is returned only to calls whose codes resolve.
C25_UnresolvedRejected ==
  \A i \in Ids :
    (Transition(i) /\ calls[i].qty > 0 /\ Done(i) /\ ~calls[i].ref) =>
      /\ calls[i].res = "InvalidReference"
      /\ calls[i].nupd = 0 /\ calls[i].eff = ZeroInventory

\* ------------------------------------------------- padding of a listing
FilterDone == fpc = "f_done" /\ fres.err = "none" /\ freq.codes # {}

EntriesOf(c) == {e \in fres.entries : e.sku = c}

\* C21: a GetInventory call with SKU codes returns exactly one entry for
\* every requested code that is in the catalog (the zero record when the
\* code has no inventory row) and no entry for a code that is not.
C21_OneEntryPerCode ==
  FilterDone =>
    \A c \in freq.codes :
      /\ c \in CatalogSkus => Cardinality(EntriesOf(c)) = 1
      /\ c \notin CatalogSkus => EntriesOf(c) = {}

\* C21, amended: a GetInventory call with SKU codes returns at least one
\* entry for every requested code that is in the catalog: the rows of the
\* returned page that carry the code (one per hub), or else one zero record;
\* a code without any matching row gets exactly the zero record, and a code
\* that is not in the catalog gets no entry.
C21_EveryCodeRepresented ==
  FilterDone =>
    \A c \in freq.codes :
      /\ c \in CatalogSkus =>
           /\ EntriesOf(c) # {}
           /\ \/ EntriesOf(c) = {ZeroEntry(c)}
              \/ \A e \in EntriesOf(c) :
                   /\ <<"T1", e.hub, c>> \in Matching(freq)
                   /\ e = RealEntry(<<"T1", e.hub, c>>)
           /\ (\A k \in Matching(freq) : k[3] # c) => EntriesOf(c) = {ZeroEntry(c)}
      /\ c \notin CatalogSkus => EntriesOf(c) = {}

\* S1, S2 and the unknown S9 were requested of hub H1, which holds a row of
\* S1 only: the call returned that row and the zero record of S2
C21_Witness ==
  /\ FilterDone
  /\ freq.codes = {"S1", "S2", "S9"} /\ freq.hub = "H1"
  /\ store[<<"T1", "H1", "S1">>] # NoRow /\ store[<<"T1", "H1", "S2">>] = NoRow
  /\ fres.entries = {RealEntry(<<"T1", "H1", "S1">>), ZeroEntry("S2")}

\* C22: a GetInventory call with SKU codes returns the zero record of a
\* requested code only when no row matches the filter for that code, for
\* every page and page size.
C22_ZeroOnlyWithoutRow ==
  FilterDone =>
    \A c \in freq.codes :
      ZeroEntry(c) \in fres.entries => \A k \in Matching(freq) : k[3] # c

\* ------------------------------------------------------- the row lock
\* C27: from the moment GetInventoryWithLock returned the record to a caller
\* until that caller's conditional write, no other caller reads the record
\* under lock and the row stays as the caller read it.
C27_LockHeldUntilWrite ==
  \A p \in Procs :
    lpc[p] = "l_have" =>
      /\ \A r \in Procs \ {p} : lpc[r] \notin {"l_select", "l_have"}
      /\ Counters(store[LockKey]) = lgot[p]

\* --------------------------------------------------- the catalog directory
HubCallIds == DOMAIN hcalls

HubDone(i) == hcalls[i].res # "pending"

HubIsolated(i) == hcalls[i].conc = {}

NoDeletedRow == \A i \in HubIds : hubs[i] = NoRow \/ hubs[i].live

\* C28: a Create that finds a live hub with its code returns DuplicateCode;
\* whatever the interleaving of Create and Update calls, at most one live hub
\* has a given code, and (no hub having been deleted) every Create or Update
\* that was rejected was rejected with DuplicateCode or, for an Update of a
\* missing id, with NotFound.
C28_UniqueCodes ==
  /\ \A c \in Codes : Cardinality(LiveWithCode(hubs, c)) <= 1
  /\ \A i \in HubCallIds :
       ( /\ hcalls[i].op = "Create" /\ HubDone(i) /\ HubIsolated(i)
         /\ LiveWithCode(hcalls[i].pre.hubs, hcalls[i].code) # {} )
       => hcalls[i].res = "DuplicateCode"
  /\ NoDeletedRow =>
       \A i \in HubCallIds :
         (hcalls[i].op \in {"Create", "Update"} /\ HubDone(i) /\ hcalls[i].res # "ok")
         => hcalls[i].res \in {"DuplicateCode", "NotFound"}

Settled(i) ==
  \A j \in hcalls[i].conc : hcalls[j].op \in {"GetByID", "GetByCode"}

ByCode(s, c) ==
  IF s.codeCache[c] # Miss THEN s.codeCache[c]
  ELSE IF LiveWithCode(s.hubs, c) # {}
       THEN LET i == CHOOSE x \in LiveWithCode(s.hubs, c) : TRUE IN Entity(i, s.hubs[i].code)
       ELSE NoRow

Requested(x) == IF x.given /\ x.num THEN x.val ELSE 0

PageDone == ppc = "done"

\* C32 as stated: page below 1 or absent becomes 1, size below 1 or absent
\* becomes 20, and a requested size above 100 becomes 100, on every route.
C32_SizeCapped ==
  PageDone =>
    /\ peff.page = (IF Requested(preq.page) <= 0 THEN 1 ELSE Requested(preq.page))
    /\ peff.size = (IF Requested(preq.size) <= 0 THEN DefaultPageSize
                    ELSE IF Requested(preq.size) > MaxPageSize THEN MaxPageSize
                    ELSE Requested(preq.size))

\* C32: on every route an absent, non-numeric or non-positive page becomes 1,
\* an absent, non-numeric or non-positive page size becomes 20, a page size
\* from 1 to 100 is kept, and the page size that reaches the repository is
\* never above 100: a requested size above 100 becomes 100 on GET /inventory
\* and 20 on the other routes and in a direct call of the service.
C32_PaginationNormalised ==
  PageDone =>
    /\ peff.page = (IF Requested(preq.page) <= 0 THEN 1 ELSE Requested(preq.page))
    /\ peff.size >= 1 /\ peff.size <= MaxPageSize
    /\ peff.size = (IF Requested(preq.size) <= 0 THEN DefaultPageSize
                    ELSE IF Requested(preq.size) > MaxPageSize
                    THEN (IF preq.route = "inventory" THEN MaxPageSize ELSE DefaultPageSize)
                    ELSE Requested(preq.size))

\* a request with a page size above 100 and no page went through the hub
\* handler and the service
C32_Witness ==
  /\ PageDone /\ preq.route = "hubs"
  /\ preq.page = NoParam /\ Requested(preq.size) > MaxPageSize
  /\ peff = [page |-> 1, size |-> DefaultPageSize]

\* ------------------------------------------------- the rows of the table
\* the committed rows
Committed(h) == {i \in RowIds : h[i] # NoRow /\ h[i].by = 0}

\* C33: in every state no two rows of the inventories table have the same
\* (tenant, hub, SKU), also when two UpsertInventory transactions both found
\* no row and both insert; and no step of an upsert or of a delta update
\* removes a committed row or changes its key.
C33_OneRowPerKey ==
  /\ [](\A i, j \in RowIds :
          (heap[i] # NoRow /\ heap[j] # NoRow /\ heap[i].key = heap[j].key) => i = j)
  /\ [][\A i \in Committed(heap) : i \in Committed(heap') /\ heap'[i].key = heap[i].key]_vars

\* two transactions raced for the same key: one committed its row, the other
\* got the unique violation, and one row has the key
C33_Witness ==
  \E p, r \in Procs :
    /\ rres[p] = "UniqueViolation" /\ rres[r] = "ok" /\ rarg[p].key = rarg[r].key
    /\ Cardinality({i \in Committed(heap) : heap[i].key = rarg[p].key}) = 1

\* ------------------------------------------------- the chunks of a batch
\* ceil(n / BatchSize)
ChunkCount(n) == (n + BatchSize - 1) \div BatchSize

\* C34: the slices passed to repository UpsertInventory are consecutive: the
\* first starts at the first entry, each next one starts right after the one
\* before it, none has more than BatchSize entries, and the transaction walks
\* the entries of its slice in order; when the submission returns ok the
\* slices end at the last entry, so every entry was passed exactly once in
\* submission order, in ceil(n / BatchSize) calls.
C34_ChunksPartition ==
  /\ \A i \in DOMAIN chunks :
       /\ chunks[i].lo = (IF i = 1 THEN 1 ELSE chunks[i - 1].hi + 1)
       /\ chunks[i].hi >= chunks[i].lo
       /\ chunks[i].hi - chunks[i].lo + 1 <= BatchSize
       /\ chunks[i].hi <= sub.n
  /\ bpc \in {"b_resolve", "b_update", "b_insert", "b_commit"} =>
       /\ lo = chunks[Len(chunks)].lo
       /\ pos >= lo /\ pos <= chunks[Len(chunks)].hi
  /\ bpc = "b_commit" => pos = chunks[Len(chunks)].hi
  /\ (bres = "ok" /\ submits > 0) =>
       /\ Len(chunks) = ChunkCount(sub.n)
       /\ chunks[Len(chunks)].hi = sub.n

\* a submission of BatchSize + 1 entries returned ok after two chunks
C34_Witness ==
  /\ bres = "ok" /\ sub.n = BatchSize + 1
  /\ chunks = <<[lo |-> 1, hi |-> BatchSize], [lo |-> BatchSize + 1, hi |-> BatchSize + 1]>>

\* ------------------------------------------- a delta update without a row
Direct(i) == calls[i].op \in DirectOps

\* C35: a delta update on a pair that has no row returns an error that names
\* the missing row (not the error of a stale or concurrently modified record,
\* nor a precondition failure), creates no row and issues no cache DEL.
C35_MissingRowDistinguished ==
  \A i \in Ids :
    (Direct(i) /\ Done(i) /\ Isolated(i) /\ calls[i].pre = NoRow) =>
      /\ calls[i].res = "NotFound"
      /\ calls[i].post = NoRow
      /\ ~calls[i].inval

\* ------------------------------------------------- conservation of stock
\* available + reserved of a row (0 for a missing row)
Stock(row) == Counters(row).available + Counters(row).reserved

\* only Reserve and Release calls were made, and every failed one either
\* changed nothing or undid its first update
ReserveReleaseOnly ==
  \A i \in Ids :
    /\ calls[i].op \in {"Reserve", "Release"}
    /\ Failed(i) => calls[i].nupd \in {0, 2}

\* C36: when no call is in flight after any interleaving of Reserve and
\* Release calls (successful, or failed and compensated), available +
\* reserved of the row is what it was before the first of them.
C36_StockConserved ==
  (Quiescent /\ ReserveReleaseOnly) =>
    \A i \in Ids :
      (\A j \in Ids : calls[j].key = calls[i].key => j >= i)
        => Stock(store[calls[i].key]) = Stock(calls[i].pre)

\* a Reserve and a Release that overlapped each other both succeeded
C36_Witness ==
  /\ Quiescent /\ ReserveReleaseOnly
  /\ \E i, j \in Ids :
       /\ calls[i].op = "Reserve" /\ Ok(i) /\ calls[j].op = "Release" /\ Ok(j)
       /\ calls[i].key = calls[j].key
       /\ j \in calls[i].conc

\* the handler that takes the step
Moved(p) == pc'[p] # pc[p] \/ cur'[p] # cur[p]

\* what the table and redis hold for the tenant of triple k
Holding(k) == <<store[k], cache[k], pageCache[Tenant(k)], countCache[Tenant(k)]>>

\* the TTL of a redis entry of the tenant of k ran out
Expired(k) ==
  /\ \A p \in Procs : ~Moved(p)
  /\ store'[k] = store[k]
  /\ cache'[k] \in {cache[k], Miss}
  /\ pageCache'[Tenant(k)] \in {pageCache[Tenant(k)], Miss}
  /\ countCache'[Tenant(k)] \in {countCache[Tenant(k)], Miss}

\* a step changes the row or a redis entry of a tenant only when it is a step
\* of a call for that tenant
TenantFrame ==
  \A k \in DOMAIN store :
    Holding(k)' # Holding(k) =>
      \/ Expired(k)
      \/ \E p \in Procs : Moved(p) /\ Tenant(calls'[cur'[p]].key) = Tenant(k)

\* what GetInventoryItem and GetInventory returned for a tenant are rows of
\* that tenant
TenantReads ==
  \A i \in DOMAIN calls :
    LET c == calls[i]
        t == Tenant(c.key)
    IN  /\ (c.op = "Get" /\ Ok(i) /\ c.val # NoRow /\ c.pre # NoRow) => c.val.in_transit = Mark(t)
        /\ (c.op = "List" /\ Ok(i)) =>
             \A k \in DOMAIN c.val.rows :
               /\ Tenant(k) = t
               /\ c.val.rows[k] # NoRow => c.val.rows[k].in_transit = Mark(t)

\* C37: a call for one tenant changes no inventory row and no cache entry of
\* another tenant, and GetInventoryItem and GetInventory for one tenant return
\* only rows of that tenant, when the two tenants use the same hub code and
\* the same SKU code
C37_TenantIsolation == []TenantReads /\ [][TenantFrame]_vars

\* T2 read its row into the cache, then a Reserve of T1 on the same codes ran
\* its invalidation to the end, and the entry of T2 is still cached
C37_Witness ==
  \E i, j \in DOMAIN calls :
    /\ i < j
    /\ calls[i].op = "Get" /\ Tenant(calls[i].key) = "T2" /\ Ok(i)
    /\ calls[j].op = "Reserve" /\ Tenant(calls[j].key) = "T1" /\ Ok(j) /\ calls[j].inval
    /\ cache[<<"T2", "H1", "S1">>] # Miss
    /\ store[<<"T1", "H1", "S1">>] # NoRow /\ store[<<"T2", "H1", "S1">>] # NoRow

\* units of a pair that reserveInventory left reserved
Held(k) == ostock[k].reserved - opre[k].reserved

\* the IMS answered every request of the finalizer
Answered == olost = 0

C39_EmitIffSaved == bpos = "done" => emitted = savedOrders

====
